---------------------------- MODULE Spec2Model ----------------------------
(***************************************************************************)
(* A model of the kernel heap of rust_kernel: the alignment arithmetic and *)
(* init_heap (src/src/allocator.rs), the bump allocator                    *)
(* (allocator/bump.rs), the linked-list allocator                          *)
(* (allocator/linked_list.rs), the fixed-size block allocator              *)
(* (allocator/fixed_size_block.rs), the lock around the global allocator   *)
(* (src/src/locked.rs) and the heap tests (tests/heap_allocation.rs).      *)
(*                                                                         *)
(* Addresses and sizes are usize values.  The model keeps the arithmetic   *)
(* of the code (masking, checked additions) on a word of UsizeBits bits,   *)
(* so that the top of the address space is reachable.                      *)
(***************************************************************************)
EXTENDS Integers, Sequences, FiniteSets, TLC

VARIABLES
    addr, align,                  \* align_up: the arguments
    result,                       \* <<the Option returned>> once align_up or list_index has been called
    bump,                         \* BumpAllocator {heap_start, heap_end, next, allocations}
    head,                         \* LinkedListAllocator: the nodes after the sentinel head, in list order
    list_heads, fallback_allocator, \* FixedSizeBlockAllocator
    region,                       \* the heap region handed to new/init; <<>> before init
    live,                         \* the allocations handed out and not yet freed, oldest first
    last,                         \* the last call: its operation, layout and returned pointer
    panicked,                     \* TRUE once an assert/expect/unwrap of the allocator failed
    freed_class,                  \* the <<address, class index>> of every block ever freed into a class list
    mutex,                        \* Locked.inner: TRUE while the spin::Mutex is locked
    pc,                           \* where the interrupted code and the interrupt handler each are
    req,                          \* the allocator call each of them is in
    li_layout,                    \* list_index: the Layout it is applied to
    boot,                         \* init_heap: the next page, the calls made so far, the returned Result
    prog,                         \* the heap tests: the Vec's buffer and capacity, the loop's count and box
    tasks,                        \* Executor.tasks: the ids of the tasks it holds
    kinds,                        \* the future of each task spawned so far, by id; NEXT_ID is its length
    task_queue,                   \* Executor.task_queue, the oldest id first
    waker_cache,                  \* Executor.waker_cache: the ids it holds a Waker for
    epc,                          \* where kernel code is in Executor::run and in the poll of a task
    cur,                          \* the task id run_ready_tasks popped last
    ints,                         \* the interrupt flag of the CPU: TRUE while interrupts are enabled
    WAKER,                        \* keyboard::WAKER: <<id>> when the waker of task id is registered
    SCANCODE_QUEUE,               \* keyboard::SCANCODE_QUEUE: whether initialised, and its scancodes
    held,                         \* the ids whose waker a future left with an interrupt source
    keys,                         \* scancodes enqueued so far, scancodes handed to print_keypresses so far
    frame_allocator,              \* BootInfoFrameAllocator {memory_map, next}
    frames                        \* what allocate_frame returned, call by call

vars == <<addr, align, result, bump, head, list_heads, fallback_allocator,
          region, live, last, panicked, freed_class, mutex, pc, req, li_layout, boot, prog,
          tasks, kinds, task_queue, waker_cache, epc, cur, ints, WAKER, SCANCODE_QUEUE,
          held, keys, frame_allocator, frames>>

-----------------------------------------------------------------------------
(* Bounds of the model.                                                     *)

\* width of usize in the model (64 on the target); wide enough for a heap of
\* HEAP_SIZE bytes
UsizeBits == 22
\* align_up is applied to the addresses 0..MaxAddrInput, to the MaxAddrInput+1
\* addresses at the top of the address space, and around the middle
MaxAddrInput == 24
\* align_up is applied to the alignments 0..MaxAlignInput and to every power of two
MaxAlignInput == 20
\* at most this many allocations are live at a time
MaxLive == 3
\* at most this many allocations of the fixed-size-block allocator are live at a time
MaxFixedLive == 2

-----------------------------------------------------------------------------
(* usize arithmetic.                                                        *)

RECURSIVE Pow2(_)
Pow2(n) == IF n = 0 THEN 1 ELSE 2 * Pow2(n - 1)

USIZE_MAX == Pow2(UsizeBits) - 1
ISIZE_MAX == Pow2(UsizeBits - 1) - 1

Usize == 0..USIZE_MAX

Some(v) == [some |-> TRUE, val |-> v]
None == [some |-> FALSE, val |-> 0]

Max(a, b) == IF a >= b THEN a ELSE b

\* Op applied to the value of v, v evaluated once: let x = v in Op(x)
With(v, Op(_)) == CHOOSE y \in {Op(x) : x \in {v}} : TRUE

\* a & b
RECURSIVE BitAnd(_, _)
BitAnd(a, b) ==
    IF a = 0 \/ b = 0 THEN 0
    ELSE (a % 2) * (b % 2) + 2 * BitAnd(a \div 2, b \div 2)

\* !a on a usize
BitNot(a) == USIZE_MAX - a

\* usize::count_ones
RECURSIVE count_ones(_)
count_ones(a) == IF a = 0 THEN 0 ELSE (a % 2) + count_ones(a \div 2)

\* usize::is_power_of_two
is_power_of_two(a) == count_ones(a) = 1

\* usize::checked_add
checked_add(a, b) == IF a + b > USIZE_MAX THEN None ELSE Some(a + b)

\* usize::wrapping_add
wrapping_add(a, b) == Some((a + b) % (USIZE_MAX + 1))

-----------------------------------------------------------------------------
(* allocator.rs: align_up                                                   *)

\* align_up with the aligned case dropped: always steps to the next multiple
align_up_always_steps(a, n) ==
    IF ~is_power_of_two(n) THEN None
    ELSE checked_add(BitAnd(a, BitNot(n - 1)), n)

\* align_up with a wrapping addition in place of the checked one
align_up_wrapping(a, n) ==
    IF ~is_power_of_two(n) THEN None
    ELSE With(n - 1, LAMBDA mask :
         IF BitAnd(a, mask) = 0 THEN Some(a)
         ELSE wrapping_add(BitAnd(a, BitNot(mask)), n))

align_up(a, n) ==
    IF ~is_power_of_two(n) THEN None
    ELSE With(n - 1, LAMBDA mask :
         IF BitAnd(a, mask) = 0 THEN Some(a)
         ELSE checked_add(BitAnd(a, BitNot(mask)), n))

-----------------------------------------------------------------------------
(* core::alloc::Layout                                                      *)

\* Layout::from_size_align: Err (None) unless align is a power of two and size,
\* rounded up to align, does not exceed isize::MAX
from_size_align(size, al) ==
    IF ~is_power_of_two(al) THEN None
    ELSE IF size > ISIZE_MAX - (al - 1) THEN None
    ELSE Some([size |-> size, align |-> al])

\* Layout::align_to
align_to(layout, al) == from_size_align(layout.size, Max(layout.align, al))

\* Layout::pad_to_align: the size rounded up to the alignment, which cannot overflow
pad_to_align(layout) ==
    [size |-> BitAnd(layout.size + layout.align - 1, BitNot(layout.align - 1)),
     align |-> layout.align]

NULL == 0

Layouts(sizes, aligns) ==
    {l \in [size : sizes, align : aligns] : from_size_align(l.size, l.align).some}

Remove(s, i) == SubSeq(s, 1, i - 1) \o SubSeq(s, i + 1, Len(s))

\* [a, a + n) and [b, b + m) share a byte
Overlap(a, n, b, m) == a < b + m /\ b < a + n

NoCall == [op |-> "none", layout |-> [size |-> 0, align |-> 1], ptr |-> NULL]
Call(op, layout, ptr) == [op |-> op, layout |-> layout, ptr |-> ptr]

-----------------------------------------------------------------------------
(* The variables of the components a specification leaves alone.            *)

alignVars == <<addr, align, result>>
ghostVars == <<region, live, last, panicked, freed_class>>
lockVars == <<mutex, pc, req>>
taskVars == <<tasks, kinds, task_queue, waker_cache, epc, cur, ints, WAKER,
              SCANCODE_QUEUE, held, keys>>
frameVars == <<frame_allocator, frames>>
sysVars == <<lockVars, li_layout, boot, prog, taskVars, frameVars>>

AlignIdle == addr = 0 /\ align = 1 /\ result = <<>>
BumpIdle == bump = [heap_start |-> 0, heap_end |-> 0, next |-> 0, allocations |-> 0]
LinkedListIdle == head = <<>>
FixedIdle == list_heads = <<>> /\ fallback_allocator = <<>>
GhostInit == live = <<>> /\ last = NoCall /\ panicked = FALSE /\ freed_class = {}
LockIdle ==
    /\ mutex = FALSE
    /\ pc = [main |-> "idle", handler |-> "off"]
    /\ req = [main |-> NoCall, handler |-> NoCall]
LayoutIdle == li_layout = [size |-> 0, align |-> 1]
BootIdle == boot = [page |-> 0, log |-> <<>>, result |-> "none"]
ProgIdle == prog = [elem |-> 0, n |-> 0, cap |-> 0, ptr |-> 0, iter |-> 0, x |-> 0]
TaskIdle ==
    /\ tasks = {} /\ kinds = <<>> /\ task_queue = <<>> /\ waker_cache = {}
    /\ epc = "off" /\ cur = 0 /\ ints = TRUE /\ WAKER = <<>>
    /\ SCANCODE_QUEUE = [init |-> FALSE, queue |-> <<>>]
    /\ held = {} /\ keys = [pushed |-> 0, read |-> 0]
FramesIdle == frame_allocator = [memory_map |-> <<>>, next |-> 0] /\ frames = <<>>
SysIdle == LockIdle /\ LayoutIdle /\ BootIdle /\ ProgIdle /\ TaskIdle /\ FramesIdle

-----------------------------------------------------------------------------
(* align_up applied to bounded inputs.                                      *)

AddrInputs ==
    (0..MaxAddrInput) \cup (USIZE_MAX - MaxAddrInput..USIZE_MAX)
        \cup (ISIZE_MAX - 2..ISIZE_MAX + 3)

AlignInputs ==
    (0..MaxAlignInput) \cup {Pow2(k) : k \in 0..UsizeBits - 1}
        \cup {ISIZE_MAX, USIZE_MAX, USIZE_MAX - 1}

InitAlign ==
    /\ addr \in AddrInputs
    /\ align \in AlignInputs
    /\ result = <<>>
    /\ BumpIdle /\ LinkedListIdle /\ FixedIdle /\ GhostInit /\ region = <<>>
    /\ SysIdle

AlignUpCall ==
    /\ result = <<>>
    /\ result' = <<align_up(addr, align)>>
    /\ UNCHANGED <<sysVars, addr, align, bump, head, list_heads, fallback_allocator, ghostVars>>

NextAlign == AlignUpCall

SpecAlign == InitAlign /\ [][NextAlign]_vars

\* the powers of two, by their definition
IsPowerOfTwo(n) == \E k \in 0..UsizeBits - 1 : n = Pow2(k)

\* the smallest multiple of n that is >= a, as an unbounded integer
RoundUp(a, n) == ((a + n - 1) \div n) * n

\* C1: whenever align_up(a, n) returns a value r for a power of two n, r >= a,
\* r is a multiple of n and no smaller multiple of n is >= a (r - a < n).
C1_AlignUpSmallestMultiple ==
    (result # <<>> /\ IsPowerOfTwo(align) /\ result[1].some) =>
        /\ result[1].val >= addr
        /\ result[1].val % align = 0
        /\ result[1].val - addr < align

C1_Witness ==
    /\ result # <<>> /\ result[1].some
    /\ align > 1 /\ addr % align # 0
    /\ result[1].val > addr

\* C2: align_up returns None exactly when n is not a power of two or the smallest
\* multiple of n that is >= a exceeds the largest address; any value it returns
\* is a usize (nothing wrapped around).
C2_AlignUpNoneIff ==
    result # <<>> =>
        /\ result[1].some = FALSE <=>
               (~IsPowerOfTwo(align) \/ RoundUp(addr, align) > USIZE_MAX)
        /\ result[1].some => result[1].val \in Usize /\ result[1].val >= addr

C2_Witness ==
    /\ result # <<>> /\ ~result[1].some
    /\ IsPowerOfTwo(align) /\ align > 1
    /\ addr > USIZE_MAX - align

-----------------------------------------------------------------------------
(* allocator/bump.rs                                                        *)

\* BumpAllocator::new
bump_new(heap_start, heap_size) ==
    [heap_start |-> heap_start,
     heap_end |-> heap_start + heap_size,
     next |-> heap_start,
     allocations |-> 0]

\* alloc that hands out next as it is, without aligning it
bump_alloc_unaligned(b, layout) ==
    With(checked_add(b.next, layout.size), LAMBDA alloc_end :
    IF ~alloc_end.some \/ alloc_end.val > b.heap_end
    THEN [bump |-> b, ptr |-> NULL]
    ELSE [bump |-> [b EXCEPT !.next = alloc_end.val, !.allocations = @ + 1],
          ptr |-> b.next])

\* alloc that moves the cursor before it checks the end against heap_end
bump_alloc_moves_first(b, layout) ==
    With(align_up(b.next, layout.align), LAMBDA alloc_start :
    IF ~alloc_start.some THEN [bump |-> b, ptr |-> NULL]
    ELSE With(checked_add(alloc_start.val, layout.size), LAMBDA alloc_end :
         IF ~alloc_end.some THEN [bump |-> b, ptr |-> NULL]
         ELSE IF alloc_end.val > b.heap_end
         THEN [bump |-> [b EXCEPT !.next = alloc_end.val], ptr |-> NULL]
         ELSE [bump |-> [b EXCEPT !.next = alloc_end.val, !.allocations = @ + 1],
               ptr |-> alloc_start.val]))

\* GlobalAlloc::alloc for Locked<BumpAllocator>: the allocator after the call and
\* the returned pointer
bump_alloc(b, layout) ==
    With(align_up(b.next, layout.align), LAMBDA alloc_start :
    IF ~alloc_start.some THEN [bump |-> b, ptr |-> NULL]
    ELSE With(checked_add(alloc_start.val, layout.size), LAMBDA alloc_end :
         IF ~alloc_end.some THEN [bump |-> b, ptr |-> NULL]
         ELSE IF alloc_end.val > b.heap_end
         THEN [bump |-> b, ptr |-> NULL]
         ELSE [bump |-> [b EXCEPT !.next = alloc_end.val, !.allocations = @ + 1],
               ptr |-> alloc_start.val]))

\* dealloc that rewinds the cursor on every free
bump_dealloc_always_resets(b) ==
    [b EXCEPT !.allocations = @ - 1, !.next = b.heap_start]

\* dealloc that counts the allocation out and never rewinds the cursor
bump_dealloc_no_reset(b) == [b EXCEPT !.allocations = @ - 1]

\* GlobalAlloc::dealloc for Locked<BumpAllocator>; the pointer and the layout are
\* not looked at
bump_dealloc(b) ==
    With([b EXCEPT !.allocations = @ - 1], LAMBDA b1 :
    IF b1.allocations = 0 THEN [b1 EXCEPT !.next = b1.heap_start] ELSE b1)

\* the regions a bump allocator is constructed over: one low in the address
\* space, one ending at the last address
BumpRegions == {<<16, 16>>, <<USIZE_MAX - 11, 11>>}

BumpLayouts == Layouts({2, 8}, {1, 4, Pow2(UsizeBits - 2)})

InitBump ==
    /\ \E r \in BumpRegions : bump = bump_new(r[1], r[2]) /\ region = r
    /\ AlignIdle /\ LinkedListIdle /\ FixedIdle /\ GhostInit /\ SysIdle

BumpAlloc(layout) ==
    \E r \in {bump_alloc(bump, layout)} :
    /\ r.ptr = NULL \/ Len(live) < MaxLive
    /\ bump' = r.bump
    /\ live' = IF r.ptr = NULL THEN live
               ELSE Append(live, [ptr |-> r.ptr, layout |-> layout])
    /\ last' = Call("alloc", layout, r.ptr)
    /\ UNCHANGED <<sysVars, alignVars, head, list_heads, fallback_allocator,
                   region, panicked, freed_class>>

\* a free of the i-th live allocation, with the layout it was allocated with
BumpDealloc(i) ==
    /\ bump' = bump_dealloc(bump)
    /\ live' = Remove(live, i)
    /\ last' = Call("dealloc", live[i].layout, live[i].ptr)
    /\ UNCHANGED <<sysVars, alignVars, head, list_heads, fallback_allocator,
                   region, panicked, freed_class>>

NextBump ==
    \/ \E layout \in BumpLayouts : BumpAlloc(layout)
    \/ \E i \in 1..Len(live) : BumpDealloc(i)

SpecBump == InitBump /\ [][NextBump]_vars

\* C8: every live allocation of the bump allocator starts at a multiple of its
\* alignment, lies inside [heap_start, heap_end), and is disjoint from every
\* other live allocation.
C8_BumpAlignedInsideDisjoint ==
    /\ \A i \in 1..Len(live) :
        /\ live[i].ptr % live[i].layout.align = 0
        /\ live[i].ptr >= bump.heap_start
        /\ live[i].ptr + live[i].layout.size <= bump.heap_end
    /\ \A i, j \in 1..Len(live) :
        i # j => ~Overlap(live[i].ptr, live[i].layout.size,
                          live[j].ptr, live[j].layout.size)

\* two allocations are live, the second one placed after alignment padding
C8_Witness ==
    /\ Len(live) >= 2
    /\ live[2].layout.align > 1
    /\ live[2].ptr > live[1].ptr + live[1].layout.size

C10_BumpFailedAllocChangesNothing ==
    [][(last'.op = "alloc" /\ last'.ptr = NULL) => bump' = bump]_vars

\* an alloc failed for lack of space while an allocation was live
C10_Witness ==
    /\ last.op = "alloc" /\ last.ptr = NULL
    /\ bump.allocations > 0
    /\ align_up(bump.next, last.layout.align).some
    /\ align_up(bump.next, last.layout.align).val + last.layout.size > bump.heap_end

\* C29: a free of the bump allocator that leaves the live count above zero
\* lowers the live count by one and changes nothing else; so as long as the
\* live count stays above zero next does not go down, and every allocation
\* starts at or behind the next of before, behind every allocation made
\* since the count was last zero, freed or not.
C29_BumpFreeKeepsCursor ==
    [][/\ (last'.op = "dealloc" /\ live' # live /\ bump'.allocations > 0) =>
            bump' = [bump EXCEPT !.allocations = @ - 1]
       /\ bump'.allocations > 0 => bump'.next >= bump.next
       /\ (last'.op = "alloc" /\ last'.ptr # NULL) => last'.ptr >= bump.next
       /\ bump'.heap_start = bump.heap_start
       /\ bump'.heap_end = bump.heap_end]_vars

\* the allocation made last, which ends at next, was freed while another one
\* is live: next still points behind it
C29_Witness ==
    /\ last.op = "dealloc"
    /\ bump.allocations > 0
    /\ last.ptr + last.layout.size = bump.next
    /\ last.ptr > bump.heap_start

-----------------------------------------------------------------------------
(* allocator/linked_list.rs                                                 *)

\* mem::size_of::<ListNode>() and mem::align_of::<ListNode>(): a usize and a
\* pointer-sized Option<&'static mut ListNode>
ListNodeSize == 16
ListNodeAlign == 8

\* a ListNode written at address a
Node(a, size) == [addr |-> a, size |-> size]

\* ListNode::start_addr, ListNode::end_addr
start_addr(node) == node.addr
end_addr(node) == start_addr(node) + node.size

\* add_free_region that merges the new region into a free node it touches
add_free_region_coalescing(list, a, size) ==
    IF align_up(a, ListNodeAlign) # Some(a) \/ ~(size >= ListNodeSize)
    THEN [head |-> list, panic |-> TRUE]
    ELSE IF \E k \in 1..Len(list) : list[k].addr + list[k].size = a
    THEN With(CHOOSE k \in 1..Len(list) : list[k].addr + list[k].size = a, LAMBDA k :
         [head |-> [list EXCEPT ![k].size = @ + size], panic |-> FALSE])
    ELSE IF \E k \in 1..Len(list) : list[k].addr = a + size
    THEN With(CHOOSE k \in 1..Len(list) : list[k].addr = a + size, LAMBDA k :
         [head |-> [list EXCEPT ![k] = [addr |-> a, size |-> @.size + size]],
          panic |-> FALSE])
    ELSE [head |-> <<[addr |-> a, size |-> size]>> \o list, panic |-> FALSE]

\* add_free_region that links the new node behind the last node of the list
add_free_region_at_end(list, a, size) ==
    IF align_up(a, ListNodeAlign) # Some(a) \/ ~(size >= ListNodeSize)
    THEN [head |-> list, panic |-> TRUE]
    ELSE [head |-> list \o <<Node(a, size)>>, panic |-> FALSE]

\* LinkedListAllocator::add_free_region on the list `list`: the two asserts, then
\* the node (a, size) is written at a and linked right after the sentinel head
add_free_region(list, a, size) ==
    IF align_up(a, ListNodeAlign) # Some(a) \/ ~(size >= ListNodeSize)
    THEN [head |-> list, panic |-> TRUE]
    ELSE [head |-> <<Node(a, size)>> \o list, panic |-> FALSE]

\* alloc_from_region that asks for room for a node header behind every
\* allocation, also behind one that ends at the end of the region
alloc_from_region_no_exact_fit(node, layout) ==
    With(align_up(start_addr(node), layout.align), LAMBDA alloc_start :
    IF ~alloc_start.some THEN None
    ELSE With(checked_add(alloc_start.val, layout.size), LAMBDA alloc_end :
         IF ~alloc_end.some THEN None
         ELSE IF alloc_end.val > end_addr(node) THEN None
         ELSE With(end_addr(node) - alloc_end.val, LAMBDA excess_size :
              IF excess_size < ListNodeSize THEN None
              ELSE Some(alloc_start.val))))

\* alloc_from_region that accepts a region whatever is left behind the allocation
alloc_from_region_any_tail(node, layout) ==
    With(align_up(start_addr(node), layout.align), LAMBDA alloc_start :
    IF ~alloc_start.some THEN None
    ELSE With(checked_add(alloc_start.val, layout.size), LAMBDA alloc_end :
         IF ~alloc_end.some THEN None
         ELSE IF alloc_end.val > end_addr(node) THEN None
         ELSE Some(alloc_start.val)))

\* alloc_from_region with a wrapping addition for the end of the allocation
alloc_from_region_wrapping(node, layout) ==
    With(align_up(start_addr(node), layout.align), LAMBDA alloc_start :
    IF ~alloc_start.some THEN None
    ELSE With(wrapping_add(alloc_start.val, layout.size), LAMBDA alloc_end :
         IF alloc_end.val > end_addr(node) THEN None
         ELSE With(end_addr(node) - alloc_end.val, LAMBDA excess_size :
              IF excess_size > 0 /\ excess_size < ListNodeSize THEN None
              ELSE Some(alloc_start.val))))

\* alloc_from_region
alloc_from_region(node, layout) ==
    With(align_up(start_addr(node), layout.align), LAMBDA alloc_start :
    IF ~alloc_start.some THEN None
    ELSE With(checked_add(alloc_start.val, layout.size), LAMBDA alloc_end :
         IF ~alloc_end.some THEN None
         ELSE IF alloc_end.val > end_addr(node) THEN None
         ELSE With(end_addr(node) - alloc_end.val, LAMBDA excess_size :
              IF excess_size > 0 /\ excess_size < ListNodeSize THEN None
              ELSE Some(alloc_start.val))))

\* the loop of find_region going on to the last node that alloc_from_region
\* accepts
find_from_last(list, layout, i) ==
    IF \A j \in i..Len(list) : ~alloc_from_region(list[j], layout).some THEN 0
    ELSE CHOOSE j \in i..Len(list) :
             /\ alloc_from_region(list[j], layout).some
             /\ \A m \in (j + 1)..Len(list) : ~alloc_from_region(list[m], layout).some

\* the loop of find_region: the position of the first node from position i on
\* that alloc_from_region accepts, 0 when the end of the list is reached
RECURSIVE find_from(_, _, _)
find_from(list, layout, i) ==
    IF i > Len(list) THEN 0
    ELSE IF alloc_from_region(list[i], layout).some THEN i
    ELSE find_from(list, layout, i + 1)

\* find_region that returns the chosen node and leaves it linked in the list
find_region_keeps_node(list, layout) ==
    With(find_from(list, layout, 1), LAMBDA i :
    IF i = 0 THEN [found |-> FALSE, head |-> list]
    ELSE [found |-> TRUE, node |-> list[i],
          alloc_start |-> alloc_from_region(list[i], layout).val,
          head |-> list])

\* LinkedListAllocator::find_region: the chosen node, the start of the
\* allocation in it, and the list with that node unlinked
find_region(list, layout) ==
    With(find_from(list, layout, 1), LAMBDA i :
    IF i = 0 THEN [found |-> FALSE, head |-> list]
    ELSE [found |-> TRUE, node |-> list[i],
          alloc_start |-> alloc_from_region(list[i], layout).val,
          head |-> Remove(list, i)])

\* size_align that does not raise the size to the size of a node header
size_align_no_header(layout) ==
    With(align_to(layout, ListNodeAlign), LAMBDA aligned :
    IF ~aligned.some THEN None
    ELSE With(pad_to_align(aligned.val), LAMBDA padded :
         from_size_align(padded.size, padded.align)))

\* size_align that leaves the size as the caller gave it, without the padding
\* to the alignment
size_align_unpadded(layout) ==
    With(align_to(layout, ListNodeAlign), LAMBDA aligned :
    IF ~aligned.some THEN None
    ELSE from_size_align(Max(aligned.val.size, ListNodeSize), aligned.val.align))

\* size_align
size_align(layout) ==
    With(align_to(layout, ListNodeAlign), LAMBDA aligned :
    IF ~aligned.some THEN None
    ELSE With(pad_to_align(aligned.val), LAMBDA padded :
         from_size_align(Max(padded.size, ListNodeSize), padded.align)))

\* the Some arm of alloc, giving the rest of the node back from alloc_start
\* instead of alloc_end
ll_alloc_found_excess_at_start(f, layout) ==
    With(checked_add(f.alloc_start, layout.size), LAMBDA alloc_end :
    IF ~alloc_end.some THEN [head |-> f.head, ptr |-> NULL, panic |-> TRUE]
    ELSE With(end_addr(f.node) - alloc_end.val, LAMBDA excess_size :
         IF excess_size > 0
         THEN With(add_free_region(f.head, f.alloc_start, excess_size), LAMBDA a :
              [head |-> a.head, panic |-> a.panic,
               ptr |-> IF a.panic THEN NULL ELSE f.alloc_start])
         ELSE [head |-> f.head, ptr |-> f.alloc_start, panic |-> FALSE]))

\* the Some arm of alloc that keeps the rest of the node with the allocation
ll_alloc_found_no_split(f, layout) ==
    With(checked_add(f.alloc_start, layout.size), LAMBDA alloc_end :
    IF ~alloc_end.some THEN [head |-> f.head, ptr |-> NULL, panic |-> TRUE]
    ELSE [head |-> f.head, ptr |-> f.alloc_start, panic |-> FALSE])

\* the part of alloc after find_region found the node f.node: the rest of the
\* node past the allocation goes back to the list
ll_alloc_found(f, layout) ==
    With(checked_add(f.alloc_start, layout.size), LAMBDA alloc_end :
    IF ~alloc_end.some THEN [head |-> f.head, ptr |-> NULL, panic |-> TRUE]
    ELSE With(end_addr(f.node) - alloc_end.val, LAMBDA excess_size :
         IF excess_size > 0
         THEN With(add_free_region(f.head, alloc_end.val, excess_size), LAMBDA a :
              [head |-> a.head, panic |-> a.panic,
               ptr |-> IF a.panic THEN NULL ELSE f.alloc_start])
         ELSE [head |-> f.head, ptr |-> f.alloc_start, panic |-> FALSE]))

\* GlobalAlloc::alloc for Locked<LinkedListAllocator>: the list after the call,
\* the returned pointer, and whether the call panicked instead of returning
ll_alloc(list, layout) ==
    With(size_align(layout), LAMBDA l :
    IF ~l.some THEN [head |-> list, ptr |-> NULL, panic |-> FALSE]
    ELSE With(find_region(list, l.val), LAMBDA f :
         IF ~f.found THEN [head |-> list, ptr |-> NULL, panic |-> FALSE]
         ELSE ll_alloc_found(f, l.val)))

\* GlobalAlloc::dealloc for Locked<LinkedListAllocator>
ll_dealloc(list, ptr, layout) ==
    With(size_align(layout), LAMBDA aligned :
    IF ~aligned.some THEN [head |-> list, panic |-> TRUE]
    ELSE add_free_region(list, ptr, aligned.val.size))

\* the size a live allocation of the linked-list allocator occupies
NormalizedSize(layout) == size_align(layout).val.size

\* the regions init is called with: node-aligned, at least one node long and
\* ending inside the address space; one is not 16-aligned and not a multiple of
\* the node size, one ends near the last address, one is as long as the
\* largest allocation that is asked for
LinkedListRegions == {<<16, 64>>, <<24, 60>>, <<USIZE_MAX - 63, 56>>, <<32, 32>>}

LinkedListLayouts == Layouts({1, 24}, {1, 16, Pow2(UsizeBits - 2)})

InitLinkedList ==
    /\ head = <<>> /\ region = <<>>
    /\ AlignIdle /\ BumpIdle /\ FixedIdle /\ GhostInit /\ SysIdle

\* LinkedListAllocator::init
LinkedListInit(r) ==
    \E a \in {add_free_region(head, r[1], r[2])} :
    /\ region = <<>> /\ ~panicked
    /\ head' = a.head
    /\ panicked' = a.panic
    /\ region' = r
    /\ UNCHANGED <<sysVars, alignVars, bump, list_heads, fallback_allocator,
                   live, last, freed_class>>

LinkedListAlloc(layout) ==
    \E r \in {ll_alloc(head, layout)} :
    /\ ~panicked
    /\ r.ptr = NULL \/ Len(live) < MaxLive
    /\ head' = r.head
    /\ panicked' = r.panic
    /\ live' = IF r.ptr = NULL THEN live
               ELSE Append(live, [ptr |-> r.ptr, layout |-> layout])
    /\ last' = Call("alloc", layout, r.ptr)
    /\ UNCHANGED <<sysVars, alignVars, bump, list_heads, fallback_allocator,
                   region, freed_class>>

\* a free of the i-th live allocation, with the layout it was allocated with
LinkedListDealloc(i) ==
    \E r \in {ll_dealloc(head, live[i].ptr, live[i].layout)} :
    /\ ~panicked
    /\ head' = r.head
    /\ panicked' = r.panic
    /\ live' = Remove(live, i)
    /\ last' = Call("dealloc", live[i].layout, live[i].ptr)
    /\ UNCHANGED <<sysVars, alignVars, bump, list_heads, fallback_allocator,
                   region, freed_class>>

NextLinkedList ==
    \/ \E r \in LinkedListRegions : LinkedListInit(r)
    \/ \E layout \in LinkedListLayouts : LinkedListAlloc(layout)
    \/ \E i \in 1..Len(live) : LinkedListDealloc(i)

SpecLinkedList == InitLinkedList /\ [][NextLinkedList]_vars

\* C3: every live allocation of the linked-list allocator, with its normalized
\* size, lies inside the initialised region and is disjoint from every other
\* live allocation.
C3_LinkedListInsideDisjoint ==
    /\ \A i \in 1..Len(live) :
        /\ region # <<>>
        /\ live[i].ptr >= region[1]
        /\ live[i].ptr + NormalizedSize(live[i].layout) <= region[1] + region[2]
    /\ \A i, j \in 1..Len(live) :
        i # j => ~Overlap(live[i].ptr, NormalizedSize(live[i].layout),
                          live[j].ptr, NormalizedSize(live[j].layout))

\* an allocation was made in a region that an earlier allocation had occupied
\* and given back, while two others are live
C3_Witness ==
    /\ Len(live) = 3
    /\ last.op = "alloc" /\ last.ptr = live[3].ptr
    /\ live[3].ptr < live[2].ptr

\* C4: the nodes of the free list lie inside the heap, at node-aligned
\* addresses, each at least a node header long, pairwise disjoint (so no node
\* is linked twice and the list is a finite chain) and disjoint from every
\* live allocation.
C4_FreeListWellFormed ==
    /\ \A k \in 1..Len(head) :
        /\ region # <<>>
        /\ head[k].addr >= region[1]
        /\ end_addr(head[k]) <= region[1] + region[2]
        /\ head[k].addr % ListNodeAlign = 0
        /\ head[k].size >= ListNodeSize
    /\ \A k, m \in 1..Len(head) :
        k # m => ~Overlap(head[k].addr, head[k].size, head[m].addr, head[m].size)
    /\ \A k \in 1..Len(head) : \A i \in 1..Len(live) :
        ~Overlap(head[k].addr, head[k].size,
                 live[i].ptr, NormalizedSize(live[i].layout))

\* the heap is split into several free nodes by frees, with an allocation live
C4_Witness ==
    /\ Len(head) >= 3
    /\ Len(live) >= 1
    /\ last.op = "dealloc"

\* C20: a successful alloc of the linked-list allocator took a node of the
\* free list in which the allocation, placed at the aligned start, ends at or
\* before the node's end; either it ends exactly there and the node is gone,
\* or what is left behind it is at least a node header long and is the region
\* alloc gave to add_free_region, whose asserts held.
C20_RegionAcceptedOnlyWithUsableTail ==
    [][/\ last'.op = "alloc" => ~panicked'
       /\ (last'.op = "alloc" /\ last'.ptr # NULL) =>
          \E k \in 1..Len(head) :
              /\ align_up(start_addr(head[k]), size_align(last'.layout).val.align)
                     = Some(last'.ptr)
              /\ last'.ptr + NormalizedSize(last'.layout) <= end_addr(head[k])
              /\ \/ /\ last'.ptr + NormalizedSize(last'.layout) = end_addr(head[k])
                    /\ head' = Remove(head, k)
                 \/ /\ end_addr(head[k]) - (last'.ptr + NormalizedSize(last'.layout))
                           >= ListNodeSize
                    /\ head' = <<Node(last'.ptr + NormalizedSize(last'.layout),
                                      end_addr(head[k])
                                          - (last'.ptr + NormalizedSize(last'.layout)))>>
                                   \o Remove(head, k)]_vars

\* the last alloc was served from a node behind one in which it would have
\* fitted with a tail shorter than a node header, and that node is still free
C20_Witness ==
    /\ last.op = "alloc" /\ last.ptr # NULL
    /\ \E k \in 1..Len(head) :
        /\ head[k].addr < last.ptr
        /\ head[k].size > NormalizedSize(last.layout)
        /\ head[k].size - NormalizedSize(last.layout) < ListNodeSize
        /\ align_up(head[k].addr, size_align(last.layout).val.align) = Some(head[k].addr)

\* the allocation of the normalized layout, placed at the aligned start of
\* the node, ends at or before the node's end
FitsIn(node, layout) ==
    /\ align_up(start_addr(node), size_align(layout).val.align).some
    /\ align_up(start_addr(node), size_align(layout).val.align).val
           + NormalizedSize(layout) <= end_addr(node)

\* what is left of the node behind the allocation
TailOf(node, layout) ==
    end_addr(node)
        - (align_up(start_addr(node), size_align(layout).val.align).val
               + NormalizedSize(layout))

\* C21: when the first node of the free list that the request fits in leaves
\* a tail that is non-zero and shorter than a node header, alloc returns the
\* aligned start of that node and consumes the node whole: the node is
\* unlinked and nothing is put back.
C21_SmallTailRegionConsumed ==
    [][(last'.op = "alloc" /\ region' = region /\ size_align(last'.layout).some) =>
          \A k \in 1..Len(head) :
              (/\ FitsIn(head[k], last'.layout)
               /\ \A m \in 1..(k - 1) : ~FitsIn(head[m], last'.layout)
               /\ TailOf(head[k], last'.layout) > 0
               /\ TailOf(head[k], last'.layout) < ListNodeSize)
              => /\ Some(last'.ptr) = align_up(start_addr(head[k]),
                                               size_align(last'.layout).val.align)
                 /\ head' = Remove(head, k)]_vars

\* C21 as the code has it: a node that the request fits in with a tail that is
\* non-zero and shorter than a node header is passed over. No alloc panics,
\* the node is still in the list after the alloc, and the address returned,
\* if any, lies outside it.
C21_SmallTailRegionSkipped ==
    [][(last'.op = "alloc" /\ region' = region /\ size_align(last'.layout).some) =>
          /\ ~panicked'
          /\ \A k \in 1..Len(head) :
              (/\ FitsIn(head[k], last'.layout)
               /\ TailOf(head[k], last'.layout) > 0
               /\ TailOf(head[k], last'.layout) < ListNodeSize)
              => /\ \E m \in 1..Len(head') : head'[m] = head[k]
                 /\ last'.ptr = NULL
                    \/ ~Overlap(last'.ptr, NormalizedSize(last'.layout),
                                head[k].addr, head[k].size)]_vars

\* the last alloc returned null although a node of the list has room for it,
\* with a tail shorter than a node header
C21_Witness ==
    /\ last.op = "alloc" /\ last.ptr = NULL
    /\ size_align(last.layout).some
    /\ \E k \in 1..Len(head) :
        /\ FitsIn(head[k], last.layout)
        /\ TailOf(head[k], last.layout) > 0
        /\ TailOf(head[k], last.layout) < ListNodeSize

\* the node takes the request: it fits, and ends at the node's end or leaves
\* room for a node header behind it
Accepts(node, layout) ==
    /\ FitsIn(node, layout)
    /\ TailOf(node, layout) = 0 \/ TailOf(node, layout) >= ListNodeSize

\* C22: find_region is first-fit in list order. An alloc whose normalized
\* layout no node of the free list takes returns null and leaves the list as
\* it was; otherwise the allocation starts at the aligned start of the first
\* node from the head that takes it, exactly that node is unlinked, and the
\* other nodes stay, in their order, behind at most the one node that alloc
\* links for the tail.
C22_FindRegionFirstFit ==
    [][(last'.op = "alloc" /\ region' = region /\ size_align(last'.layout).some) =>
          IF \A k \in 1..Len(head) : ~Accepts(head[k], last'.layout)
          THEN last'.ptr = NULL /\ head' = head
          ELSE \E k \in 1..Len(head) :
                  /\ Accepts(head[k], last'.layout)
                  /\ \A m \in 1..(k - 1) : ~Accepts(head[m], last'.layout)
                  /\ Some(last'.ptr) = align_up(start_addr(head[k]),
                                                size_align(last'.layout).val.align)
                  /\ \/ head' = Remove(head, k)
                     \/ /\ Len(head') = Len(head)
                        /\ Tail(head') = Remove(head, k)]_vars

\* the last alloc took a whole node from behind a node it does not fit in;
\* that node is still first in the list and another node follows it
C22_Witness ==
    /\ last.op = "alloc" /\ last.ptr # NULL
    /\ Len(head) >= 2
    /\ \A k \in 1..Len(head) :
           head[k].addr # last.ptr + NormalizedSize(last.layout)
    /\ ~FitsIn(head[1], last.layout)
    /\ head[1].addr > last.ptr

\* C23: add_free_region links the node (addr, size) right after the sentinel
\* head, in front of the node that was first. On init and on every free the
\* list grows by exactly that one node and every node that was in the list is
\* still there, one place further back, with its address and size, also when
\* the new region touches a free region.
C23_AddFreeRegionLinksAtHead ==
    [][/\ region' # region =>
            /\ head' = <<Node(region'[1], region'[2])>> \o head
       /\ (last'.op = "dealloc" /\ live' # live) =>
            /\ Len(head') = Len(head) + 1
            /\ head'[1] = Node(last'.ptr, NormalizedSize(last'.layout))
            /\ \A k \in 1..Len(head) : head'[k + 1] = head[k]]_vars

\* the region just freed is first in the list and ends where the free node
\* behind it in the list begins, and both are still separate nodes
C23_Witness ==
    /\ last.op = "dealloc"
    /\ Len(head) >= 3
    /\ head[1].addr = last.ptr
    /\ end_addr(head[1]) = head[2].addr

\* the normalized layout as the claim words it: the larger of the layout's
\* and the node's alignment, and the size rounded up to a multiple of it and
\* raised to the size of a node header
NormAlign(layout) == Max(layout.align, ListNodeAlign)
NormSize(layout) == Max(RoundUp(layout.size, NormAlign(layout)), ListNodeSize)

\* C24: alloc and dealloc of the linked-list allocator use the same
\* normalized layout. A successful alloc returns an address that is a multiple
\* of the normalized alignment and takes exactly the normalized size from the
\* front of a free node (the allocation ends at the node's end, or the node
\* put back begins right behind it); a free links exactly the node
\* (ptr, normalized size).
C24_AllocDeallocSameNormalizedLayout ==
    [][/\ (last'.op = "alloc" /\ region' = region /\ last'.ptr # NULL) =>
            /\ last'.ptr % NormAlign(last'.layout) = 0
            /\ \E k \in 1..Len(head) :
                /\ start_addr(head[k]) <= last'.ptr
                /\ last'.ptr - start_addr(head[k]) < NormAlign(last'.layout)
                /\ \/ last'.ptr + NormSize(last'.layout) = end_addr(head[k])
                   \/ /\ head' # <<>>
                      /\ head'[1].addr = last'.ptr + NormSize(last'.layout)
                      /\ end_addr(head'[1]) = end_addr(head[k])
       /\ (last'.op = "dealloc" /\ live' # live) =>
            /\ head' # <<>>
            /\ head'[1] = Node(last'.ptr, NormSize(last'.layout))]_vars

\* an allocation whose layout is padded to its alignment, 24 bytes to 32, was
\* made and freed: the node linked for it is 32 bytes long
C24_Witness ==
    /\ last.op = "dealloc"
    /\ last.layout = [size |-> 24, align |-> 16]
    /\ head # <<>>
    /\ head[1] = Node(last.ptr, 32)

\* C25: once init has been given a node-aligned region of at least a node
\* header, no call of alloc or of dealloc with the layout of the allocation
\* panics: the two asserts of add_free_region hold for the tail alloc puts
\* back and for the region dealloc gives back.
C25_AddFreeRegionAssertsHold ==
    (/\ region # <<>>
     /\ region[1] % ListNodeAlign = 0
     /\ region[2] >= ListNodeSize) => ~panicked

\* add_free_region has been called by dealloc with a region of exactly one
\* node header and by alloc or dealloc at an address that is a multiple of
\* the node alignment and of no larger power of two
C25_Witness ==
    /\ last.op = "dealloc"
    /\ head # <<>>
    /\ head[1] = Node(last.ptr, ListNodeSize)
    /\ \E k \in 1..Len(head) : head[k].addr % (2 * ListNodeAlign) = ListNodeAlign
    /\ ~panicked

\* C26: an alloc that directly follows a free and asks for the layout just
\* freed returns the address just freed and unlinks the node the free linked:
\* the list is again the list before the free, which is the list behind the
\* freed node.
C26_FreeThenAllocSameAddress ==
    [][(/\ last.op = "dealloc"
        /\ last'.op = "alloc"
        /\ last'.layout = last.layout) =>
           /\ last'.ptr = last.ptr
           /\ head' = Tail(head)]_vars

\* the last alloc took a whole node although the node now first in the list
\* takes its layout too, and no live allocation lies below the address it
\* returned: the node it took was first in the list, put there by a free
C26_Witness ==
    /\ last.op = "alloc" /\ last.ptr # NULL
    /\ Len(live) >= 2
    /\ \A i \in 1..(Len(live) - 1) : live[i].ptr > last.ptr
    /\ head # <<>>
    /\ Accepts(head[1], last.layout)
    /\ head[1].addr # last.ptr + NormalizedSize(last.layout)

\* the sum of the sizes of the nodes of a free list
RECURSIVE FreeBytes(_)
FreeBytes(list) ==
    IF list = <<>> THEN 0 ELSE Head(list).size + FreeBytes(Tail(list))

\* the sum of the normalized sizes of live allocations
RECURSIVE LiveBytes(_)
LiveBytes(allocs) ==
    IF allocs = <<>> THEN 0
    ELSE NormalizedSize(Head(allocs).layout) + LiveBytes(Tail(allocs))

\* C27: in every state after init, the sizes of the free-list nodes and the
\* normalized sizes of the live allocations add up to the size of the region
\* given to init.
C27_FreePlusLiveIsHeapSize ==
    region # <<>> => FreeBytes(head) + LiveBytes(live) = region[2]

\* C27 as the code has it: init makes the sizes of the free nodes and of the
\* live allocations add up to the heap size; a free and an alloc whose
\* alignment is at most the node alignment leave the sum as it is, and an
\* alloc of a larger alignment never raises it and lowers it by less than its
\* alignment, the bytes skipped in front of the aligned start.
C27_FreePlusLiveNeverGrows ==
    [][/\ region' # region =>
            FreeBytes(head') + LiveBytes(live') = region'[2]
       /\ (last'.op = "dealloc" /\ live' # live) =>
            FreeBytes(head') + LiveBytes(live') = FreeBytes(head) + LiveBytes(live)
       /\ (last'.op = "alloc" /\ region' = region) =>
            /\ FreeBytes(head') + LiveBytes(live') <= FreeBytes(head) + LiveBytes(live)
            /\ FreeBytes(head) + LiveBytes(live)
                   - (FreeBytes(head') + LiveBytes(live')) < last'.layout.align
            /\ last'.layout.align <= ListNodeAlign =>
                 FreeBytes(head') + LiveBytes(live')
                     = FreeBytes(head) + LiveBytes(live)]_vars

\* everything has been freed after allocations of alignment 1 that split the
\* heap, and the free nodes add up to the heap size
C27_Witness ==
    /\ region # <<>>
    /\ last.op = "dealloc"
    /\ live = <<>>
    /\ Len(head) >= 3
    /\ FreeBytes(head) = region[2]

\* the largest number of a finite set of naturals, 0 for the empty set
Largest(S) == IF S = {} THEN 0 ELSE CHOOSE x \in S : \A y \in S : y <= x

\* the size of the largest node of a free list
LargestFree(list) == Largest({list[k].size : k \in 1..Len(list)})

\* the size of the largest piece of the heap, free node or live allocation
LargestPiece(list, allocs) ==
    Max(LargestFree(list),
        Largest({NormalizedSize(allocs[i].layout) : i \in 1..Len(allocs)}))

\* C28: after init, no alloc and no free makes the largest node of the free
\* list larger.
C28_LargestFreeNodeNeverGrows ==
    [][(region # <<>> /\ region' = region) =>
          LargestFree(head') <= LargestFree(head)]_vars

\* C28 as the code has it: after init, no alloc and no free makes the largest
\* piece of the heap, free node or live allocation, larger, and an alloc of
\* the size of the whole heap succeeds only from the one node init linked; so
\* once that node has been split no alloc of the size of the heap succeeds.
C28_LargestPieceNeverGrows ==
    [][(region # <<>> /\ region' = region) =>
          /\ LargestPiece(head', live') <= LargestPiece(head, live)
          /\ (/\ last'.op = "alloc" /\ last'.ptr # NULL
              /\ NormalizedSize(last'.layout) >= region[2])
             => head = <<Node(region[1], region[2])>>]_vars

\* the heap was split, everything has been freed, two free nodes touch, and
\* the alloc of the size of the whole heap that followed returned null
C28_Witness ==
    /\ region # <<>>
    /\ last.op = "alloc" /\ last.ptr = NULL
    /\ NormalizedSize(last.layout) = region[2]
    /\ live = <<>>
    /\ FreeBytes(head) = region[2]
    /\ \E k, m \in 1..Len(head) : end_addr(head[k]) = head[m].addr

-----------------------------------------------------------------------------
(* allocator/fixed_size_block.rs                                            *)

BLOCK_SIZES == <<8, 16, 32, 64, 128, 256, 512, 1024, 2048>>

\* BLOCK_SIZES[index], index counted from 0 as in the code
BlockSize(index) == BLOCK_SIZES[index + 1]

\* mem::size_of and mem::align_of of fixed_size_block::ListNode: one pointer
BlockNodeSize == 8
BlockNodeAlign == 8

\* Iterator::position over BLOCK_SIZES, from index i on
RECURSIVE position_from(_, _)
position_from(required_block_size, i) ==
    IF i >= Len(BLOCK_SIZES) THEN None
    ELSE IF BlockSize(i) >= required_block_size THEN Some(i)
    ELSE position_from(required_block_size, i + 1)

\* list_index that looks at the size alone
list_index_by_size(layout) == position_from(layout.size, 0)

\* list_index
list_index(layout) == position_from(Max(layout.size, layout.align), 0)

\* linked_list_allocator::Heap, the fallback heap: a first-fit free-list heap
\* with the behaviour of the linked-list allocator above
heap_empty == <<>>
heap_init(heap_start, heap_size) == add_free_region(heap_empty, heap_start, heap_size).head
heap_allocate_first_fit(heap, layout) ==
    With(ll_alloc(heap, layout), LAMBDA r : [heap |-> r.head, ptr |-> r.ptr])
heap_deallocate(heap, ptr, layout) == ll_dealloc(heap, ptr, layout).head

\* FixedSizeBlockAllocator::new
fsb_new == [list_heads |-> [i \in 0..Len(BLOCK_SIZES) - 1 |-> <<>>],
            fallback_allocator |-> heap_empty]

\* init that attaches no memory to the fallback heap
fsb_init_empty(a, heap_start, heap_size) == a

\* FixedSizeBlockAllocator::init
fsb_init(a, heap_start, heap_size) ==
    [a EXCEPT !.fallback_allocator = heap_init(heap_start, heap_size)]

\* FixedSizeBlockAllocator::fallback_alloc
fallback_alloc(a, layout) ==
    With(heap_allocate_first_fit(a.fallback_allocator, layout), LAMBDA r :
    [alloc |-> [a EXCEPT !.fallback_allocator = r.heap], ptr |-> r.ptr, panic |-> FALSE])

\* the block layout of class index: Layout::from_size_align(block_size, block_size)
block_layout(index) == from_size_align(BlockSize(index), BlockSize(index))

\* alloc that takes the block at the end of the class list, the one freed first
fsb_alloc_pops_oldest(a, layout) ==
    With(list_index(layout), LAMBDA index :
    IF index.some
    THEN IF a.list_heads[index.val] # <<>>
         THEN [alloc |-> [a EXCEPT !.list_heads[index.val] = SubSeq(@, 1, Len(@) - 1)],
               ptr |-> a.list_heads[index.val][Len(a.list_heads[index.val])],
               panic |-> FALSE]
         ELSE fallback_alloc(a, block_layout(index.val).val)
    ELSE fallback_alloc(a, layout))

\* alloc that asks the fallback heap for the caller's layout when the class
\* list is empty
fsb_alloc_caller_layout(a, layout) ==
    With(list_index(layout), LAMBDA index :
    IF index.some /\ a.list_heads[index.val] # <<>>
    THEN [alloc |-> [a EXCEPT !.list_heads[index.val] = Tail(@)],
          ptr |-> Head(a.list_heads[index.val]), panic |-> FALSE]
    ELSE fallback_alloc(a, layout))

\* alloc that returns the head block of the class list and leaves it on the list
fsb_alloc_no_pop(a, layout) ==
    With(list_index(layout), LAMBDA index :
    IF index.some
    THEN IF a.list_heads[index.val] # <<>>
         THEN [alloc |-> a, ptr |-> Head(a.list_heads[index.val]), panic |-> FALSE]
         ELSE fallback_alloc(a, block_layout(index.val).val)
    ELSE fallback_alloc(a, layout))

\* GlobalAlloc::alloc for Locked<FixedSizeBlockAllocator>: the allocator after
\* the call, the returned pointer, and whether the call panicked
fsb_alloc(a, layout) ==
    With(list_index(layout), LAMBDA index :
    IF index.some
    THEN IF a.list_heads[index.val] # <<>>
         THEN [alloc |-> [a EXCEPT !.list_heads[index.val] = Tail(@)],
               ptr |-> Head(a.list_heads[index.val]), panic |-> FALSE]
         ELSE With(block_layout(index.val), LAMBDA l :
              IF ~l.some
              THEN [alloc |-> a, ptr |-> NULL, panic |-> TRUE]
              ELSE fallback_alloc(a, l.val))
    ELSE fallback_alloc(a, layout))

\* dealloc that puts a block no class fits on the list of the largest class
fsb_dealloc_all_to_class(a, ptr, layout) ==
    With(list_index(layout), LAMBDA index :
    [alloc |-> [a EXCEPT !.list_heads[IF index.some THEN index.val
                                      ELSE Len(BLOCK_SIZES) - 1] = <<ptr>> \o @],
     panic |-> FALSE])

\* dealloc that hands every block, class-sized or not, to the fallback heap
fsb_dealloc_to_fallback(a, ptr, layout) ==
    IF ptr = NULL THEN [alloc |-> a, panic |-> TRUE]
    ELSE [alloc |-> [a EXCEPT !.fallback_allocator = heap_deallocate(@, ptr, layout)],
          panic |-> FALSE]

\* dealloc that forgets the block
fsb_dealloc_leaks(a, ptr, layout) == [alloc |-> a, panic |-> FALSE]

\* GlobalAlloc::dealloc for Locked<FixedSizeBlockAllocator>
fsb_dealloc(a, ptr, layout) ==
    With(list_index(layout), LAMBDA index :
    IF index.some
    THEN IF ~(BlockNodeSize <= BlockSize(index.val))
              \/ ~(BlockSize(index.val) % BlockNodeAlign = 0)
         THEN [alloc |-> a, panic |-> TRUE]
         ELSE [alloc |-> [a EXCEPT !.list_heads[index.val] = <<ptr>> \o @],
               panic |-> FALSE]
    ELSE IF ptr = NULL THEN [alloc |-> a, panic |-> TRUE]
    ELSE [alloc |-> [a EXCEPT !.fallback_allocator = heap_deallocate(@, ptr, layout)],
          panic |-> FALSE])

\* the allocator as one value
Fixed == [list_heads |-> list_heads, fallback_allocator |-> fallback_allocator]

\* the regions init is called with; the first is not aligned to the larger
\* block sizes
FixedRegions == {<<1032, 5120>>, <<4096, 6144>>}

\* requests of the classes 32 and 2048, and the smallest request no class fits
FixedLayouts ==
    {[size |-> 24, align |-> 8], [size |-> 2048, align |-> 1],
     [size |-> 2049, align |-> 1]}

InitFixed ==
    /\ list_heads = fsb_new.list_heads
    /\ fallback_allocator = fsb_new.fallback_allocator
    /\ region = <<>>
    /\ AlignIdle /\ BumpIdle /\ LinkedListIdle /\ GhostInit /\ SysIdle

FixedInit(r) ==
    \E a \in {fsb_init(Fixed, r[1], r[2])} :
    /\ region = <<>> /\ ~panicked
    /\ list_heads' = a.list_heads
    /\ fallback_allocator' = a.fallback_allocator
    /\ region' = r
    /\ UNCHANGED <<sysVars, alignVars, bump, head, live, last, panicked, freed_class>>

FixedAlloc(layout) ==
    \E r \in {fsb_alloc(Fixed, layout)} :
    /\ ~panicked
    /\ r.ptr = NULL \/ Len(live) < MaxFixedLive
    /\ list_heads' = r.alloc.list_heads
    /\ fallback_allocator' = r.alloc.fallback_allocator
    /\ panicked' = r.panic
    /\ live' = IF r.ptr = NULL THEN live
               ELSE Append(live, [ptr |-> r.ptr, layout |-> layout])
    /\ last' = Call("alloc", layout, r.ptr)
    /\ UNCHANGED <<sysVars, alignVars, bump, head, region, freed_class>>

\* a free of the i-th live allocation, with the layout it was allocated with
FixedDealloc(i) ==
    \E r \in {fsb_dealloc(Fixed, live[i].ptr, live[i].layout)} :
    \E index \in {list_index(live[i].layout)} :
    /\ ~panicked
    /\ list_heads' = r.alloc.list_heads
    /\ fallback_allocator' = r.alloc.fallback_allocator
    /\ panicked' = r.panic
    /\ live' = Remove(live, i)
    /\ last' = Call("dealloc", live[i].layout, live[i].ptr)
    /\ freed_class' = IF index.some THEN freed_class \cup {<<live[i].ptr, index.val>>}
                      ELSE freed_class
    /\ UNCHANGED <<sysVars, alignVars, bump, head, region>>

NextFixed ==
    \/ \E r \in FixedRegions : FixedInit(r)
    \/ \E layout \in FixedLayouts : FixedAlloc(layout)
    \/ \E i \in 1..Len(live) : FixedDealloc(i)

SpecFixed == InitFixed /\ [][NextFixed]_vars

\* the bytes a live allocation of the fixed-size-block allocator owns: its
\* class's block, or the requested size when no class fits
OwnedSize(layout) ==
    IF list_index(layout).some THEN BlockSize(list_index(layout).val)
    ELSE layout.size

\* C5: every allocation handed out for a layout with max(size, align) <= 2048
\* starts at a multiple of the size of the class list_index chooses, whether the
\* block was carved from the fallback heap or popped from the class list.
C5_FixedBlockAligned ==
    \A i \in 1..Len(live) :
        Max(live[i].layout.size, live[i].layout.align) <= 2048 =>
            /\ list_index(live[i].layout).some
            /\ live[i].ptr % BlockSize(list_index(live[i].layout).val) = 0

\* the last alloc popped a 32-byte block that had been freed into its class
\* list, in the region that is not aligned to the block sizes
C5_Witness ==
    /\ last.op = "alloc" /\ last.ptr # NULL
    /\ <<last.ptr, 2>> \in freed_class
    /\ region[1] = 1032

\* C6: an alloc never returns memory of a block that was freed into a class
\* list, except that very block to a layout of the same class: not to another
\* class, and not from the fallback heap.
C6_FixedBlockStaysInClass ==
    (last.op = "alloc" /\ last.ptr # NULL) =>
        \A b \in freed_class :
            Overlap(last.ptr, OwnedSize(last.layout), b[1], BlockSize(b[2])) =>
                /\ last.ptr = b[1]
                /\ list_index(last.layout) = Some(b[2])

\* blocks of two classes have been freed, and a request that no class fits is
\* then served by the fallback heap
C6_Witness ==
    /\ last.op = "alloc" /\ last.ptr # NULL
    /\ ~list_index(last.layout).some
    /\ \E b, c \in freed_class : b[2] # c[2]

\* C7: every live allocation of the fixed-size-block allocator, from a class
\* list or from the fallback heap, lies inside the initialised region, and no
\* two live allocations overlap.
C7_FixedInsideDisjoint ==
    /\ \A i \in 1..Len(live) :
        /\ region # <<>>
        /\ live[i].ptr >= region[1]
        /\ live[i].ptr + OwnedSize(live[i].layout) <= region[1] + region[2]
    /\ \A i, j \in 1..Len(live) :
        i # j => ~Overlap(live[i].ptr, OwnedSize(live[i].layout),
                          live[j].ptr, OwnedSize(live[j].layout))

\* a block popped from a class list and an allocation no class fits are live
\* together
C7_Witness ==
    /\ Len(live) = 2
    /\ \E i, k \in 1..2 :
        /\ list_index(live[i].layout).some
        /\ <<live[i].ptr, list_index(live[i].layout).val>> \in freed_class
        /\ ~list_index(live[k].layout).some

\* C30: an alloc of the fixed-size-block allocator whose class list is not
\* empty returns the block at the head of that list, takes exactly that block
\* off the list, and leaves the other class lists and the fallback heap as
\* they were; a free into a class puts the block at the head of the class
\* list, so the block returned is the one freed into the class last.
C30_FixedAllocPopsLastFreed ==
    [][/\ (/\ last'.op = "alloc" /\ region' = region
           /\ list_index(last'.layout).some
           /\ list_heads[list_index(last'.layout).val] # <<>>) =>
              /\ last'.ptr = Head(list_heads[list_index(last'.layout).val])
              /\ list_heads' = [list_heads EXCEPT
                                   ![list_index(last'.layout).val] = Tail(@)]
              /\ fallback_allocator' = fallback_allocator
       /\ (/\ last'.op = "dealloc" /\ live' # live
           /\ list_index(last'.layout).some) =>
              /\ list_heads' = [list_heads EXCEPT
                                   ![list_index(last'.layout).val] = <<last'.ptr>> \o @]
              /\ fallback_allocator' = fallback_allocator]_vars

\* two blocks of one class had been freed; the last alloc returned the one
\* at the lower address and the other is still on the class list
C30_Witness ==
    /\ last.op = "alloc" /\ last.ptr # NULL
    /\ list_index(last.layout).some
    /\ <<last.ptr, list_index(last.layout).val>> \in freed_class
    /\ list_heads[list_index(last.layout).val] # <<>>
    /\ last.ptr < Head(list_heads[list_index(last.layout).val])

\* C31: init leaves every class list empty. An alloc whose class list is
\* empty asks the fallback heap for one block whose size and alignment are
\* both the class size, whatever the caller's size and alignment; the class
\* lists stay as they were, and when the fallback heap has no such block the
\* alloc returns null.
C31_FixedEmptyClassCarvesBlock ==
    [][/\ region' # region =>
            \A i \in DOMAIN list_heads' : list_heads'[i] = <<>>
       /\ (/\ last'.op = "alloc" /\ region' = region
           /\ list_index(last'.layout).some
           /\ list_heads[list_index(last'.layout).val] = <<>>) =>
              /\ list_heads' = list_heads
              /\ ~panicked'
              /\ [heap |-> fallback_allocator', ptr |-> last'.ptr]
                     = heap_allocate_first_fit(fallback_allocator,
                           [size |-> BlockSize(list_index(last'.layout).val),
                            align |-> BlockSize(list_index(last'.layout).val)])]_vars

\* an alloc of a class whose list is empty returned null, the fallback heap
\* having no block of the class size left, while two allocations are live
C31_Witness ==
    /\ last.op = "alloc" /\ last.ptr = NULL
    /\ list_index(last.layout).some
    /\ list_heads[list_index(last.layout).val] = <<>>
    /\ fallback_allocator # <<>>
    /\ Len(live) = 2

\* C32: a free whose layout maps to a class leaves the fallback heap as it
\* is, and no alloc or free of a class-sized layout makes the free space of
\* the fallback heap larger: a block carved for a class never goes back.
C32_FixedBlockNeverBackToFallback ==
    [][/\ (/\ last'.op = "dealloc" /\ live' # live
           /\ list_index(last'.layout).some) =>
              fallback_allocator' = fallback_allocator
       /\ (/\ last'.op \in {"alloc", "dealloc"} /\ region' = region
           /\ list_index(last'.layout).some) =>
              FreeBytes(fallback_allocator') <= FreeBytes(fallback_allocator)]_vars

\* a request no class fits failed, the fallback heap having fewer free bytes
\* than it asks for, while a freed block of 2048 bytes sits on its class list
C32_Witness ==
    /\ last.op = "alloc" /\ last.ptr = NULL
    /\ ~list_index(last.layout).some
    /\ list_heads[8] # <<>>
    /\ FreeBytes(fallback_allocator) < last.layout.size

\* C33: an alloc or a free whose layout maps to no class goes to the fallback
\* heap with the caller's layout and leaves every class list as it was.
C33_FixedOversizeGoesToFallback ==
    [][/\ (/\ last'.op = "alloc" /\ region' = region
           /\ ~list_index(last'.layout).some) =>
              /\ list_heads' = list_heads
              /\ [heap |-> fallback_allocator', ptr |-> last'.ptr]
                     = heap_allocate_first_fit(fallback_allocator, last'.layout)
       /\ (/\ last'.op = "dealloc" /\ live' # live
           /\ ~list_index(last'.layout).some) =>
              /\ list_heads' = list_heads
              /\ ~panicked'
              /\ fallback_allocator'
                     = heap_deallocate(fallback_allocator, last'.ptr, last'.layout)]_vars

\* an allocation no class fits was freed while a freed block is on a class
\* list
C33_Witness ==
    /\ last.op = "dealloc"
    /\ ~list_index(last.layout).some
    /\ \E i \in DOMAIN list_heads : list_heads[i] # <<>>

-----------------------------------------------------------------------------
(* The global allocator is one of the three strategies.                     *)

\* which strategy the allocator of a state is
IsBump == ~BumpIdle
IsFixed == DOMAIN list_heads # {}
IsLinkedList == BumpIdle /\ ~IsFixed

InitAllocator == InitBump \/ InitLinkedList \/ InitFixed

NextAllocator ==
    \/ IsBump /\ NextBump
    \/ IsLinkedList /\ NextLinkedList
    \/ IsFixed /\ NextFixed

SpecAllocator == InitAllocator /\ [][NextAllocator]_vars

\* C11: with each of the three strategies no call panics, so neither the
\* expect("allocation overflow") of the linked-list alloc nor the unwrap of the
\* class layout in the fixed-size-block alloc is reached; an alloc returns
\* either null, handing out nothing, or an address inside the heap.
C11_AllocNullNeverPanics ==
    /\ ~panicked
    /\ last.op = "alloc" =>
         IF last.ptr = NULL
         THEN \A i \in 1..Len(live) : live[i].ptr # NULL
         ELSE /\ Len(live) > 0 /\ live[Len(live)].ptr = last.ptr
              /\ last.ptr >= region[1] /\ last.ptr < region[1] + region[2]

\* the linked-list alloc returned null for a request whose end, placed in a
\* free region at the top of the address space, is past the last address
C11_Witness ==
    /\ IsLinkedList
    /\ last.op = "alloc" /\ last.ptr = NULL
    /\ \E k \in 1..Len(head) :
         /\ align_up(start_addr(head[k]), size_align(last.layout).val.align).some
         /\ ~checked_add(align_up(start_addr(head[k]), size_align(last.layout).val.align).val,
                         size_align(last.layout).val.size).some

-----------------------------------------------------------------------------
(* locked.rs: the global allocator behind Locked, a spin::Mutex, on one     *)
(* core.  The interrupted code ("main") and an interrupt handler both call  *)
(* alloc and dealloc; the handler runs to its return before main goes on.   *)

\* at most this many allocations are live or being allocated
MaxLockedLive == 3

Contexts == {"main", "handler"}

\* a compare_exchange that takes the lock whatever the flag says
mutex_try_lock_blind(m) == [locked |-> TRUE, acquired |-> TRUE]

\* spin::Mutex::lock, one compare_exchange(false, true): the flag afterwards
\* and whether this attempt took the lock
mutex_try_lock(m) == [locked |-> TRUE, acquired |-> ~m]

\* a guard that goes out of scope without unlocking
guard_drop_forgotten(m) == m

\* MutexGuard::drop: the flag after the guard went out of scope
guard_drop(m) == FALSE

\* a handler running beside the code it interrupted, as on a second core
runs_beside_handler(c, p) == c = "handler" => p.handler # "off"

\* which of the two is executing: the handler from its entry to its return,
\* the interrupted code otherwise
runnable(c, p) == IF c = "handler" THEN p.handler # "off" ELSE p.handler = "off"

\* the heap the allocator is initialised with
LockedRegion == <<1024, 48>>

\* two requests the heap can serve, one after which little is left, and one
\* whose normalized layout does not exist
LockedLayouts ==
    {[size |-> 24, align |-> 8], [size |-> 40, align |-> 8],
     [size |-> ISIZE_MAX, align |-> 1]}

\* the allocator in use, as one value
Allocator == [bump |-> bump, head |-> head, fixed |-> Fixed]

\* the body of GlobalAlloc::alloc or dealloc of the strategy in use, the part
\* that runs with the guard: the allocator afterwards, the returned pointer,
\* and whether the call panicked
GlobalCall(q) ==
    IF IsBump
    THEN IF q.op = "alloc"
         THEN With(bump_alloc(bump, q.layout), LAMBDA r :
              [alloc |-> [Allocator EXCEPT !.bump = r.bump], ptr |-> r.ptr, panic |-> FALSE])
         ELSE [alloc |-> [Allocator EXCEPT !.bump = bump_dealloc(bump)],
               ptr |-> q.ptr, panic |-> FALSE]
    ELSE IF IsLinkedList
    THEN IF q.op = "alloc"
         THEN With(ll_alloc(head, q.layout), LAMBDA r :
              [alloc |-> [Allocator EXCEPT !.head = r.head], ptr |-> r.ptr, panic |-> r.panic])
         ELSE With(ll_dealloc(head, q.ptr, q.layout), LAMBDA r :
              [alloc |-> [Allocator EXCEPT !.head = r.head], ptr |-> q.ptr, panic |-> r.panic])
    ELSE IF q.op = "alloc"
         THEN With(fsb_alloc(Fixed, q.layout), LAMBDA r :
              [alloc |-> [Allocator EXCEPT !.fixed = r.alloc], ptr |-> r.ptr, panic |-> r.panic])
         ELSE With(fsb_dealloc(Fixed, q.ptr, q.layout), LAMBDA r :
              [alloc |-> [Allocator EXCEPT !.fixed = r.alloc], ptr |-> q.ptr, panic |-> r.panic])

InitLocked ==
    /\ \/ bump = bump_new(LockedRegion[1], LockedRegion[2])
          /\ LinkedListIdle /\ FixedIdle
       \/ head = add_free_region(<<>>, LockedRegion[1], LockedRegion[2]).head
          /\ BumpIdle /\ FixedIdle
       \/ list_heads = fsb_init(fsb_new, LockedRegion[1], LockedRegion[2]).list_heads
          /\ fallback_allocator =
                 fsb_init(fsb_new, LockedRegion[1], LockedRegion[2]).fallback_allocator
          /\ BumpIdle /\ LinkedListIdle
    /\ region = LockedRegion
    /\ AlignIdle /\ GhostInit /\ SysIdle

\* the allocations that calls in progress may still add to the live ones
PendingAllocs ==
    Cardinality({x \in Contexts : pc[x] \notin {"idle", "off"} /\ req[x].op = "alloc"})

\* c calls alloc(layout).  The linked-list alloc returns null before it locks
\* when size_align fails; every other call goes on to lock the allocator.
CallAlloc(c, layout) ==
    /\ runnable(c, pc) /\ pc[c] = "idle" /\ ~panicked
    /\ Len(live) + PendingAllocs < MaxLockedLive
    /\ IF IsLinkedList /\ ~size_align(layout).some
       THEN /\ last' = Call("alloc", layout, NULL)
            /\ UNCHANGED <<pc, req>>
       ELSE /\ pc' = [pc EXCEPT ![c] = "lock"]
            /\ req' = [req EXCEPT ![c] = Call("alloc", layout, NULL)]
            /\ UNCHANGED last
    /\ UNCHANGED <<alignVars, bump, head, list_heads, fallback_allocator,
                   region, live, panicked, freed_class, mutex, li_layout, boot, prog, taskVars, frameVars>>

\* c calls dealloc on the i-th live allocation, which it owns from here on
CallDealloc(c, i) ==
    /\ runnable(c, pc) /\ pc[c] = "idle" /\ ~panicked
    /\ pc' = [pc EXCEPT ![c] = "lock"]
    /\ req' = [req EXCEPT ![c] = Call("dealloc", live[i].layout, live[i].ptr)]
    /\ live' = Remove(live, i)
    /\ UNCHANGED <<alignVars, bump, head, list_heads, fallback_allocator,
                   region, last, panicked, freed_class, mutex, li_layout, boot, prog, taskVars, frameVars>>

\* self.lock(): one attempt to take the lock
TryLock(c) ==
    \E r \in {mutex_try_lock(mutex)} :
    /\ runnable(c, pc) /\ pc[c] = "lock"
    /\ mutex' = r.locked
    /\ pc' = [pc EXCEPT ![c] = IF r.acquired THEN "held" ELSE "spin"]
    /\ UNCHANGED <<alignVars, bump, head, list_heads, fallback_allocator,
                   ghostVars, req, li_layout, boot, prog, taskVars, frameVars>>

\* the wait of spin::Mutex::lock: around the loop while the flag is set, back
\* to the compare_exchange once it is clear
Spin(c) ==
    /\ runnable(c, pc) /\ pc[c] = "spin"
    /\ pc' = IF mutex THEN pc ELSE [pc EXCEPT ![c] = "lock"]
    /\ UNCHANGED <<alignVars, bump, head, list_heads, fallback_allocator,
                   ghostVars, mutex, req, li_layout, boot, prog, taskVars, frameVars>>

\* the body of the call, with the guard
Critical(c) ==
    \E r \in {GlobalCall(req[c])} :
    /\ runnable(c, pc) /\ pc[c] = "held" /\ ~panicked
    /\ bump' = r.alloc.bump
    /\ head' = r.alloc.head
    /\ list_heads' = r.alloc.fixed.list_heads
    /\ fallback_allocator' = r.alloc.fixed.fallback_allocator
    /\ panicked' = r.panic
    /\ req' = [req EXCEPT ![c].ptr = r.ptr]
    /\ pc' = [pc EXCEPT ![c] = "drop"]
    /\ UNCHANGED <<alignVars, region, live, last, freed_class, mutex, li_layout, boot, prog, taskVars, frameVars>>

\* the end of the call on whichever path: the guard goes out of scope and the
\* call returns
DropGuard(c) ==
    /\ runnable(c, pc) /\ pc[c] = "drop"
    /\ mutex' = guard_drop(mutex)
    /\ pc' = [pc EXCEPT ![c] = "idle"]
    /\ live' = IF req[c].op = "alloc" /\ req[c].ptr # NULL
               THEN Append(live, [ptr |-> req[c].ptr, layout |-> req[c].layout])
               ELSE live
    /\ last' = req[c]
    /\ UNCHANGED <<alignVars, bump, head, list_heads, fallback_allocator,
                   region, panicked, freed_class, req, li_layout, boot, prog, taskVars, frameVars>>

\* a hardware interrupt: the handler starts, whatever main is in the middle of
Interrupt ==
    /\ pc.handler = "off"
    /\ pc' = [pc EXCEPT !.handler = "idle"]
    /\ UNCHANGED <<alignVars, bump, head, list_heads, fallback_allocator,
                   ghostVars, mutex, req, li_layout, boot, prog, taskVars, frameVars>>

\* the handler returns and main goes on
HandlerReturn ==
    /\ pc.handler = "idle"
    /\ pc' = [pc EXCEPT !.handler = "off"]
    /\ UNCHANGED <<alignVars, bump, head, list_heads, fallback_allocator,
                   ghostVars, mutex, req, li_layout, boot, prog, taskVars, frameVars>>

NextLocked ==
    \/ \E c \in Contexts : \E layout \in LockedLayouts : CallAlloc(c, layout)
    \/ \E c \in Contexts : \E i \in 1..Len(live) : CallDealloc(c, i)
    \/ \E c \in Contexts : TryLock(c)
    \/ \E c \in Contexts : Spin(c)
    \/ \E c \in Contexts : Critical(c)
    \/ \E c \in Contexts : DropGuard(c)
    \/ Interrupt
    \/ HandlerReturn

SpecLocked == InitLocked /\ [][NextLocked]_vars

\* the calls that hold the guard
Holders == {c \in Contexts : pc[c] \in {"held", "drop"}}

\* C12: the lock is set only while a call is between taking it and its return;
\* once a call has returned, with a pointer or with null, the lock is free
\* unless the other context's call holds it.
C12_LockFreeAfterReturn ==
    mutex => Holders # {}

\* a bump alloc has just returned null from inside the guarded body while an
\* allocation is live, no call is in progress and the lock is clear
C12_Witness ==
    /\ IsBump
    /\ last.op = "alloc" /\ last.ptr = NULL
    /\ Len(live) > 0
    /\ pc = [main |-> "idle", handler |-> "off"]
    /\ ~mutex

\* C13: at most one call at a time is inside the guarded body, whatever the
\* interleaving of main and the handler, and the lock is set while one is.
C13_OneCallInsideLock ==
    /\ Cardinality(Holders) <= 1
    /\ Holders # {} => mutex

\* the handler is inside the guarded body while the call of main it
\* interrupted is waiting to take the lock
C13_Witness ==
    /\ pc.main = "lock"
    /\ pc.handler = "held"

\* the handler wants the lock that the code it interrupted holds
Stuck ==
    /\ pc.handler \in {"lock", "spin"}
    /\ pc.main \in {"held", "drop"}

\* C14: once the handler asks for the lock while the interrupted code holds
\* it, every step leaves the handler waiting, the interrupted code where it
\* was, the lock set and the allocator untouched.
C14_HandlerSpinsForever ==
    [][Stuck => /\ Stuck'
                /\ pc'.main = pc.main
                /\ mutex' /\ mutex
                /\ <<bump, head, list_heads, fallback_allocator, live, last>>'
                     = <<bump, head, list_heads, fallback_allocator, live, last>>]_vars

\* the handler is going around the wait loop with the body of main's call
\* not yet run
C14_Witness ==
    /\ pc.handler = "spin"
    /\ pc.main = "held"
    /\ req.handler.op = "dealloc"

-----------------------------------------------------------------------------
(* tests/heap_allocation.rs and main.rs: boxes, a growing Vec and the loop  *)
(* of many_boxes on the heap of init_heap.                                  *)

\* HEAP_START at the model's width: like 0x4444_4444_0000, an odd multiple of 2^18
HEAP_START == 5 * Pow2(18)
HEAP_SIZE == 1024 * 1024

\* at most this many boxes are live beside the Vec
MaxBoxes == 2
\* the loop of many_boxes runs this many times (HEAP_SIZE times in the test)
MaxIterations == 8

\* Box<i32>
BoxLayout == [size |-> 4, align |-> 4]
\* Box<usize>, the box of many_boxes
WordLayout == [size |-> 8, align |-> 8]

\* the Vec of main.rs (500 i32) and the Vec of large_vec (1000 u64)
VecRuns == {[elem |-> 4, n |-> 500], [elem |-> 8, n |-> 1000]}

\* the layout of the Vec's buffer at capacity cap
VecLayout(cap) == [size |-> cap * prog.elem, align |-> prog.elem]

\* GlobalAlloc::realloc, which the allocators leave to its default: alloc the
\* new size, and when that succeeded dealloc the old block
realloc(a, ptr, old, new_size) ==
    With(fsb_alloc(a, [size |-> new_size, align |-> old.align]), LAMBDA n :
    IF n.ptr = NULL \/ n.panic THEN n
    ELSE With(fsb_dealloc(n.alloc, ptr, old), LAMBDA f :
         [alloc |-> f.alloc, ptr |-> n.ptr, panic |-> f.panic]))

InitHeapTests ==
    /\ list_heads = fsb_init(fsb_new, HEAP_START, HEAP_SIZE).list_heads
    /\ fallback_allocator = fsb_init(fsb_new, HEAP_START, HEAP_SIZE).fallback_allocator
    /\ region = <<HEAP_START, HEAP_SIZE>>
    /\ \E v \in VecRuns :
         prog = [elem |-> v.elem, n |-> v.n, cap |-> 0, ptr |-> NULL, iter |-> 0, x |-> NULL]
    /\ AlignIdle /\ BumpIdle /\ LinkedListIdle /\ GhostInit
    /\ LockIdle /\ LayoutIdle /\ BootIdle /\ TaskIdle /\ FramesIdle

\* the live boxes: every live allocation but the Vec's buffer
Boxes == {i \in 1..Len(live) : live[i].ptr # prog.ptr}

\* Box::new of a small value, before the Vec is filled or after it is dropped
BoxNew ==
    \E r \in {fsb_alloc(Fixed, BoxLayout)} :
    /\ ~panicked /\ prog.iter = 0 /\ prog.cap = 0
    /\ Cardinality(Boxes) < MaxBoxes
    /\ list_heads' = r.alloc.list_heads
    /\ fallback_allocator' = r.alloc.fallback_allocator
    /\ panicked' = r.panic
    /\ live' = IF r.ptr = NULL THEN live
               ELSE Append(live, [ptr |-> r.ptr, layout |-> BoxLayout])
    /\ last' = Call("alloc", BoxLayout, r.ptr)
    /\ UNCHANGED <<sysVars, alignVars, bump, head, region, freed_class>>

\* a box is dropped
BoxDrop(i) ==
    /\ prog.iter = 0 /\ i \in Boxes
    /\ FixedDealloc(i)

\* the Vec grows to new_cap: its first buffer is allocated, or its buffer is
\* reallocated
VecGrow(new_cap) ==
    \E r \in {IF prog.cap = 0 THEN fsb_alloc(Fixed, VecLayout(new_cap))
              ELSE realloc(Fixed, prog.ptr, VecLayout(prog.cap), new_cap * prog.elem)} :
    \E index \in {list_index(VecLayout(prog.cap))} :
    /\ ~panicked /\ prog.iter = 0
    /\ prog.cap < prog.n /\ new_cap > prog.cap
    /\ list_heads' = r.alloc.list_heads
    /\ fallback_allocator' = r.alloc.fallback_allocator
    /\ panicked' = r.panic
    /\ live' = IF r.ptr = NULL THEN live
               ELSE Append(SelectSeq(live, LAMBDA b : b.ptr # prog.ptr),
                           [ptr |-> r.ptr, layout |-> VecLayout(new_cap)])
    /\ prog' = IF r.ptr = NULL THEN prog
               ELSE [prog EXCEPT !.cap = new_cap, !.ptr = r.ptr]
    /\ last' = Call("alloc", VecLayout(new_cap), r.ptr)
    /\ freed_class' = IF r.ptr # NULL /\ prog.cap > 0 /\ index.some
                      THEN freed_class \cup {<<prog.ptr, index.val>>}
                      ELSE freed_class
    /\ UNCHANGED <<lockVars, li_layout, boot, alignVars, bump, head, region, taskVars, frameVars>>

\* the full Vec is dropped, at the end of its test
VecDrop ==
    \E r \in {fsb_dealloc(Fixed, prog.ptr, VecLayout(prog.cap))} :
    \E index \in {list_index(VecLayout(prog.cap))} :
    /\ ~panicked /\ prog.iter = 0
    /\ prog.cap > 0 /\ prog.cap >= prog.n
    /\ list_heads' = r.alloc.list_heads
    /\ fallback_allocator' = r.alloc.fallback_allocator
    /\ panicked' = r.panic
    /\ live' = SelectSeq(live, LAMBDA b : b.ptr # prog.ptr)
    /\ prog' = [prog EXCEPT !.cap = 0, !.ptr = NULL, !.n = 0]
    /\ last' = Call("dealloc", VecLayout(prog.cap), prog.ptr)
    /\ freed_class' = IF index.some THEN freed_class \cup {<<prog.ptr, index.val>>}
                      ELSE freed_class
    /\ UNCHANGED <<lockVars, li_layout, boot, alignVars, bump, head, region, taskVars, frameVars>>

\* many_boxes, the head of an iteration: Box::new(i).  The test starts after
\* the tests before it have dropped what they allocated.
LoopAlloc ==
    \E r \in {fsb_alloc(Fixed, WordLayout)} :
    /\ ~panicked
    /\ prog.x = NULL /\ prog.iter < MaxIterations
    /\ prog.iter = 0 => live = <<>>
    /\ list_heads' = r.alloc.list_heads
    /\ fallback_allocator' = r.alloc.fallback_allocator
    /\ panicked' = r.panic
    /\ live' = IF r.ptr = NULL THEN live
               ELSE Append(live, [ptr |-> r.ptr, layout |-> WordLayout])
    /\ prog' = [prog EXCEPT !.iter = @ + 1, !.x = r.ptr]
    /\ last' = Call("alloc", WordLayout, r.ptr)
    /\ UNCHANGED <<lockVars, li_layout, boot, alignVars, bump, head, region, freed_class, taskVars, frameVars>>

\* many_boxes, the end of an iteration: the box is dropped
LoopDrop ==
    \E r \in {fsb_dealloc(Fixed, prog.x, WordLayout)} :
    /\ ~panicked
    /\ prog.x # NULL
    /\ list_heads' = r.alloc.list_heads
    /\ fallback_allocator' = r.alloc.fallback_allocator
    /\ panicked' = r.panic
    /\ live' = SelectSeq(live, LAMBDA b : b.ptr # prog.x)
    /\ prog' = [prog EXCEPT !.x = NULL]
    /\ last' = Call("dealloc", WordLayout, prog.x)
    /\ freed_class' = freed_class \cup {<<prog.x, list_index(WordLayout).val>>}
    /\ UNCHANGED <<lockVars, li_layout, boot, alignVars, bump, head, region, taskVars, frameVars>>

NextHeapTests ==
    \/ BoxNew
    \/ \E i \in 1..Len(live) : BoxDrop(i)
    \/ \E new_cap \in {Max(2 * prog.cap, 4), prog.n} : VecGrow(new_cap)
    \/ VecDrop
    \/ LoopAlloc
    \/ LoopDrop

SpecHeapTests == InitHeapTests /\ [][NextHeapTests]_vars

\* C15: on the heap of HEAP_SIZE bytes, with boxes allocated and dropped and
\* a Vec grown to 500 or 1000 elements, each growth allocating the larger
\* buffer and freeing the old one, no alloc returns null and the live
\* allocations lie inside the heap and do not overlap; dropping everything
\* leaves nothing live.
C15_HeapTestsNoNullNoOverlap ==
    /\ ~panicked
    /\ last.op = "alloc" => last.ptr # NULL
    /\ \A i \in 1..Len(live) :
        /\ live[i].ptr >= HEAP_START
        /\ live[i].ptr + OwnedSize(live[i].layout) <= HEAP_START + HEAP_SIZE
    /\ \A i, j \in 1..Len(live) :
        i # j => ~Overlap(live[i].ptr, OwnedSize(live[i].layout),
                          live[j].ptr, OwnedSize(live[j].layout))
    /\ Cardinality(Boxes) + (IF prog.cap > 0 THEN 1 ELSE 0) = Len(live)

\* the Vec of 1000 u64 was grown by doubling next to two boxes and reached
\* 1024 elements, and everything has been dropped since
C15_Witness ==
    /\ live = <<>> /\ prog.cap = 0 /\ prog.iter = 0
    /\ prog.elem = 8
    /\ last.op = "dealloc" /\ last.layout.size = 1024 * 8
    /\ \E b \in freed_class : b[2] = 8
    /\ Cardinality({b \in freed_class : b[2] = 0}) = 2

\* C16: in the loop of many_boxes no alloc returns null, and from the second
\* iteration on each alloc returns the block the iteration before freed and
\* leaves the fallback heap as it was, so the loop carves at most one block.
C16_ManyBoxesReuseOneBlock ==
    [][prog'.iter > prog.iter =>
          /\ last'.ptr # NULL
          /\ prog.iter >= 1 =>
               /\ last.op = "dealloc" /\ last'.ptr = last.ptr
               /\ fallback_allocator' = fallback_allocator]_vars

\* the loop has run to its last iteration on a heap no box had been freed
\* in before it, so that its first alloc carved the block
C16_Witness ==
    /\ prog.iter = MaxIterations /\ prog.x # NULL
    /\ freed_class = {<<prog.x, 0>>}
    /\ Len(live) = 1

-----------------------------------------------------------------------------
(* allocator.rs: init_heap                                                  *)

\* the size of a Size4KiB page
PAGE_SIZE == 4096

MapToErrors == {"FrameAllocationFailed", "ParentEntryHugePage", "PageAlreadyMapped"}

\* Page::containing_address, as the number of the page
containing_address(a) == a \div PAGE_SIZE

\* a range whose last page is the page of heap_start + heap_size
page_range_past_end(heap_start, heap_size) ==
    [start |-> containing_address(heap_start),
     end |-> containing_address(heap_start + heap_size)]

\* page_range: Page::range_inclusive from the page of heap_start to the page
\* of the last address of the heap
page_range(heap_start, heap_size) ==
    [start |-> containing_address(heap_start),
     end |-> containing_address(heap_start + heap_size - 1)]

\* a call made by init_heap and what it returned
Made(call, page, ret) == [call |-> call, page |-> page, ret |-> ret]

\* a loop body that goes on to the next page whatever the two calls return
map_page_keeps_going(b, frame, mapped) ==
    IF ~frame
    THEN [b EXCEPT !.page = @ + 1, !.log = Append(@, Made("allocate_frame", b.page, "None"))]
    ELSE [b EXCEPT !.page = @ + 1, !.log = Append(@, Made("map_to", b.page, mapped))]

\* the body of the loop for the page b.page: frame tells whether
\* allocate_frame returned a frame, mapped is what map_to returns.  Each `?`
\* returns the error from init_heap.
map_page(b, frame, mapped) ==
    IF ~frame
    THEN [b EXCEPT !.result = "FrameAllocationFailed",
                   !.log = Append(@, Made("allocate_frame", b.page, "None"))]
    ELSE IF mapped # "Ok"
    THEN [b EXCEPT !.result = mapped, !.log = Append(@, Made("map_to", b.page, mapped))]
    ELSE [b EXCEPT !.page = @ + 1, !.log = Append(@, Made("map_to", b.page, "Ok"))]

InitBoot ==
    /\ boot = [page |-> page_range(HEAP_START, HEAP_SIZE).start, log |-> <<>>,
               result |-> "none"]
    /\ list_heads = fsb_new.list_heads
    /\ fallback_allocator = fsb_new.fallback_allocator
    /\ region = <<>>
    /\ AlignIdle /\ BumpIdle /\ LinkedListIdle /\ GhostInit
    /\ LockIdle /\ LayoutIdle /\ ProgIdle /\ TaskIdle /\ FramesIdle

\* one turn of the loop over page_range
MapPage ==
    \E frame \in BOOLEAN : \E mapped \in {"Ok"} \cup MapToErrors :
    /\ boot.result = "none"
    /\ boot.page <= page_range(HEAP_START, HEAP_SIZE).end
    /\ boot' = map_page(boot, frame, mapped)
    /\ UNCHANGED <<lockVars, li_layout, prog, alignVars, bump, head, list_heads,
                   fallback_allocator, ghostVars, taskVars, frameVars>>

\* after the loop: ALLOCATOR.lock().init(HEAP_START, HEAP_SIZE), then Ok(())
HeapInit ==
    \E a \in {fsb_init(Fixed, HEAP_START, HEAP_SIZE)} :
    /\ boot.result = "none"
    /\ boot.page > page_range(HEAP_START, HEAP_SIZE).end
    /\ list_heads' = a.list_heads
    /\ fallback_allocator' = a.fallback_allocator
    /\ region' = <<HEAP_START, HEAP_SIZE>>
    /\ boot' = [boot EXCEPT !.result = "Ok", !.log = Append(@, Made("init", 0, "Ok"))]
    /\ UNCHANGED <<lockVars, li_layout, prog, alignVars, bump, head,
                   live, last, panicked, freed_class, taskVars, frameVars>>

NextBoot == MapPage \/ HeapInit

SpecBoot == InitBoot /\ [][NextBoot]_vars

\* C17: a failed call is the last call init_heap makes: after allocate_frame
\* returned None init_heap returns FrameAllocationFailed, after map_to
\* returned an error it returns that error; no page is mapped afterwards, and
\* the allocator's init is not called.
C17_InitHeapFailsFast ==
    /\ \A k \in 1..Len(boot.log) :
        boot.log[k].ret # "Ok" =>
            /\ k = Len(boot.log)
            /\ boot.result = IF boot.log[k].call = "allocate_frame"
                             THEN "FrameAllocationFailed" ELSE boot.log[k].ret
    /\ boot.result \in MapToErrors =>
        /\ boot.log # <<>> /\ boot.log[Len(boot.log)].ret # "Ok"
        /\ \A k \in 1..Len(boot.log) : boot.log[k].call # "init"
        /\ Fixed = fsb_new

\* map_to failed with PageAlreadyMapped on a page after the first
C17_Witness ==
    /\ boot.result = "PageAlreadyMapped"
    /\ Len(boot.log) > 1
    /\ boot.log[Len(boot.log)].call = "map_to"

\* the pages that share an address with [HEAP_START, HEAP_START + HEAP_SIZE)
HeapPages ==
    {q \in 0..(USIZE_MAX \div PAGE_SIZE) :
        q * PAGE_SIZE < HEAP_START + HEAP_SIZE /\ (q + 1) * PAGE_SIZE > HEAP_START}

\* C18: when init_heap has returned Ok, map_to was called once for each page
\* that shares an address with the heap and for no other page, and the
\* allocator's init was called once, with HEAP_START and HEAP_SIZE, after the
\* last of them; init is never called earlier than that.
C18_InitHeapMapsEveryPageOnce ==
    /\ boot.result = "Ok" =>
        /\ Len(boot.log) = Cardinality(HeapPages) + 1
        /\ {boot.log[k].page : k \in 1..Len(boot.log) - 1} = HeapPages
        /\ \A k \in 1..Len(boot.log) - 1 :
            boot.log[k].call = "map_to" /\ boot.log[k].ret = "Ok"
        /\ boot.log[Len(boot.log)].call = "init"
        /\ region = <<HEAP_START, HEAP_SIZE>>
    /\ \A k \in 1..Len(boot.log) :
        boot.log[k].call = "init" => k = Len(boot.log) /\ boot.result = "Ok"

\* init_heap returned Ok after mapping the pages of the heap
C18_Witness ==
    /\ boot.result = "Ok"
    /\ Len(boot.log) > HEAP_SIZE \div PAGE_SIZE
    /\ region = <<HEAP_START, HEAP_SIZE>>

-----------------------------------------------------------------------------
(* fixed_size_block.rs: list_index applied to bounded layouts.              *)

\* list_index is applied to the sizes 0..MaxSizeInput, to the sizes around
\* every block size and around the largest size a Layout can have
MaxSizeInput == 40

SizeInputs ==
    (0..MaxSizeInput)
        \cup {BlockSize(i) + k : i \in 0..Len(BLOCK_SIZES) - 1, k \in {-1, 0, 1}}
        \cup (ISIZE_MAX - 2..ISIZE_MAX)

\* every Layout of such a size, of any alignment
LayoutInputs == Layouts(SizeInputs, {Pow2(k) : k \in 0..UsizeBits - 1})

InitListIndex ==
    /\ li_layout \in LayoutInputs
    /\ result = <<>>
    /\ addr = 0 /\ align = 1
    /\ BumpIdle /\ LinkedListIdle /\ FixedIdle /\ GhostInit /\ region = <<>>
    /\ LockIdle /\ BootIdle /\ ProgIdle /\ TaskIdle /\ FramesIdle

ListIndexCall ==
    /\ result = <<>>
    /\ result' = <<list_index(li_layout)>>
    /\ UNCHANGED <<lockVars, li_layout, boot, prog, addr, align, bump, head,
                   list_heads, fallback_allocator, ghostVars, taskVars, frameVars>>

NextListIndex == ListIndexCall

SpecListIndex == InitListIndex /\ [][NextListIndex]_vars

\* C19: for a layout with max(size, align) <= 2048, size 0 included,
\* list_index returns the index of the smallest block size that is
\* >= max(size, align); it returns None exactly when max(size, align) > 2048.
C19_ListIndexSmallestClass ==
    result # <<>> =>
        /\ result[1].some <=> Max(li_layout.size, li_layout.align) <= 2048
        /\ result[1].some =>
            /\ result[1].val \in 0..Len(BLOCK_SIZES) - 1
            /\ BLOCK_SIZES[result[1].val + 1] >= Max(li_layout.size, li_layout.align)
            /\ \A j \in 1..Len(BLOCK_SIZES) :
                BLOCK_SIZES[j] >= Max(li_layout.size, li_layout.align)
                    => BLOCK_SIZES[j] >= BLOCK_SIZES[result[1].val + 1]

\* a layout of size 0 whose alignment alone puts it in a class above the first
C19_Witness ==
    /\ result # <<>> /\ result[1].some
    /\ li_layout.size = 0
    /\ result[1].val > 0

-----------------------------------------------------------------------------
(* task/executor.rs and task/keyboard.rs: the executor runs its tasks on    *)
(* the one CPU; the keyboard interrupt handler, and any other interrupt     *)
(* source a future left a waker with, run to completion between two of its  *)
(* instructions whenever interrupts are enabled.                            *)

\* the capacity of Executor.task_queue and of SCANCODE_QUEUE (100 in the
\* source), the tasks spawned before run, and the scancodes the keyboard sends
QUEUE_SIZE == 2
MaxTasks == 2
MaxKeys == 3

\* the futures spawned: print_keypresses, and a future that is ready or
\* pending at every poll as it likes
Futures == {"print_keypresses", "other"}

\* TaskWaker::wake_task: the push of the id, which panics on a full queue
wake_task(q, id) ==
    IF Len(q) >= QUEUE_SIZE THEN [queue |-> q, panic |-> TRUE]
    ELSE [queue |-> Append(q, id), panic |-> FALSE]

\* the Ready arm that leaves the waker of the task in the cache
on_ready_keeps_waker(ts, wc, id) == [tasks |-> ts \ {id}, waker_cache |-> wc]

\* run_ready_tasks, the arm Poll::Ready: the task and its waker are removed
on_ready(ts, wc, id) == [tasks |-> ts \ {id}, waker_cache |-> wc \ {id}]

\* the Pending arm of simple_executor, which puts the task back in the queue
on_pending_requeues(q, id) == Append(q, id)

\* run_ready_tasks, the arm Poll::Pending: nothing is done
on_pending(q, id) == q

\* poll_next that returns Pending right after registering the waker
poll_next_no_recheck(q) == None

\* poll_next, the second queue.pop(), after the waker was registered
poll_next_recheck(q) == IF q = <<>> THEN None ELSE Some(Head(q))

\* add_scancode: nothing but a warning while the queue is not initialised or
\* is full; else the scancode is pushed and WAKER.wake() takes the registered
\* waker, if there is one, and wakes it
add_scancode(sq, w, q, scancode) ==
    IF ~sq.init \/ Len(sq.queue) >= QUEUE_SIZE
    THEN [SCANCODE_QUEUE |-> sq, WAKER |-> w, task_queue |-> q, panic |-> FALSE,
          pushed |-> FALSE]
    ELSE IF w = <<>>
    THEN [SCANCODE_QUEUE |-> [sq EXCEPT !.queue = Append(@, scancode)],
          WAKER |-> w, task_queue |-> q, panic |-> FALSE, pushed |-> TRUE]
    ELSE [SCANCODE_QUEUE |-> [sq EXCEPT !.queue = Append(@, scancode)],
          WAKER |-> <<>>, task_queue |-> wake_task(q, w[1]).queue,
          panic |-> wake_task(q, w[1]).panic, pushed |-> TRUE]

\* the instruction after hlt is reached when an interrupt handler returns
resume(p) == IF p = "halted" THEN "run" ELSE p

\* Executor::new, with every other component idle
InitExecutor ==
    /\ tasks = {} /\ kinds = <<>> /\ task_queue = <<>> /\ waker_cache = {}
    /\ epc = "spawn" /\ cur = 0 /\ ints = TRUE /\ WAKER = <<>>
    /\ SCANCODE_QUEUE = [init |-> FALSE, queue |-> <<>>]
    /\ held = {} /\ keys = [pressed |-> 0, pushed |-> 0, read |-> 0, last |-> 0]
    /\ AlignIdle /\ BumpIdle /\ LinkedListIdle /\ FixedIdle /\ GhostInit
    /\ region = <<>>
    /\ LockIdle /\ LayoutIdle /\ BootIdle /\ ProgIdle /\ FramesIdle

otherVars == <<alignVars, bump, head, list_heads, fallback_allocator, region, live,
               last, freed_class, lockVars, li_layout, boot, prog, frameVars>>

\* Executor::spawn of Task::new(future): the id is the value of NEXT_ID
Spawn(future) ==
    \E r \in {wake_task(task_queue, Len(kinds))} :
    /\ epc = "spawn" /\ ~panicked
    /\ Len(kinds) < MaxTasks
    /\ future = "print_keypresses" =>
           \A i \in 1..Len(kinds) : kinds[i] # "print_keypresses"
    /\ tasks' = tasks \cup {Len(kinds)}
    /\ kinds' = Append(kinds, future)
    /\ task_queue' = r.queue
    /\ panicked' = r.panic
    /\ UNCHANGED <<waker_cache, epc, cur, ints, WAKER, SCANCODE_QUEUE, held, keys,
                   otherVars>>

\* Executor::run is entered
Run ==
    /\ epc = "spawn" /\ ~panicked
    /\ epc' = "sleep"
    /\ UNCHANGED <<tasks, kinds, task_queue, waker_cache, cur, ints, WAKER,
                   SCANCODE_QUEUE, held, keys, panicked, otherVars>>

\* sleep_if_idle: interrupts::disable()
Disable ==
    /\ epc = "sleep" /\ ~panicked
    /\ ints' = FALSE
    /\ epc' = "check"
    /\ UNCHANGED <<tasks, kinds, task_queue, waker_cache, cur, WAKER,
                   SCANCODE_QUEUE, held, keys, panicked, otherVars>>

\* sleep_if_idle: the test of task_queue.is_empty(), and interrupts::enable()
\* in the else arm
Check ==
    /\ epc = "check" /\ ~panicked
    /\ IF task_queue = <<>>
       THEN epc' = "hlt" /\ UNCHANGED ints
       ELSE epc' = "run" /\ ints' = TRUE
    /\ UNCHANGED <<tasks, kinds, task_queue, waker_cache, cur, WAKER,
                   SCANCODE_QUEUE, held, keys, panicked, otherVars>>

\* sleep_if_idle: interrupts::enable_and_hlt(), sti and hlt with no interrupt
\* taken between the two
EnableAndHlt ==
    /\ epc = "hlt" /\ ~panicked
    /\ ints' = TRUE
    /\ epc' = "halted"
    /\ UNCHANGED <<tasks, kinds, task_queue, waker_cache, cur, WAKER,
                   SCANCODE_QUEUE, held, keys, panicked, otherVars>>

\* run_ready_tasks: task_queue.pop(); the loop ends on None, goes on with the
\* next id when the task is gone, and else fetches or makes the waker and
\* polls the task
Pop ==
    /\ epc = "run" /\ ~panicked
    /\ IF task_queue = <<>>
       THEN epc' = "sleep" /\ UNCHANGED <<task_queue, cur, waker_cache>>
       ELSE /\ task_queue' = Tail(task_queue)
            /\ cur' = Head(task_queue)
            /\ IF Head(task_queue) \notin tasks
               THEN epc' = "run" /\ UNCHANGED waker_cache
               ELSE /\ waker_cache' = waker_cache \cup {Head(task_queue)}
                    /\ epc' = IF kinds[Head(task_queue) + 1] = "other" THEN "poll"
                              ELSE IF SCANCODE_QUEUE.init THEN "pop1" ELSE "new"
    /\ UNCHANGED <<tasks, kinds, ints, WAKER, SCANCODE_QUEUE, held, keys,
                   panicked, otherVars>>

\* the poll of a future other than print_keypresses: it returns Ready or
\* Pending, and may have left a clone of its waker with an interrupt source
PollOther ==
    \E ready, leaves \in BOOLEAN :
    /\ epc = "poll" /\ ~panicked
    /\ held' = IF leaves THEN held \cup {cur} ELSE held
    /\ IF ready
       THEN /\ tasks' = on_ready(tasks, waker_cache, cur).tasks
            /\ waker_cache' = on_ready(tasks, waker_cache, cur).waker_cache
            /\ UNCHANGED task_queue
       ELSE /\ task_queue' = on_pending(task_queue, cur)
            /\ UNCHANGED <<tasks, waker_cache>>
    /\ epc' = "run"
    /\ UNCHANGED <<kinds, cur, ints, WAKER, SCANCODE_QUEUE, keys, panicked, otherVars>>

\* print_keypresses, first poll: ScancodeStream::new initialises the queue
StreamNew ==
    /\ epc = "new" /\ ~panicked
    /\ SCANCODE_QUEUE' = [SCANCODE_QUEUE EXCEPT !.init = TRUE]
    /\ epc' = "pop1"
    /\ UNCHANGED <<tasks, kinds, task_queue, waker_cache, cur, ints, WAKER, held,
                   keys, panicked, otherVars>>

\* poll_next: the first queue.pop(); a scancode is returned as Ready to
\* print_keypresses, which handles it and awaits the next one
PollNextPop ==
    /\ epc = "pop1" /\ ~panicked
    /\ IF SCANCODE_QUEUE.queue # <<>>
       THEN /\ SCANCODE_QUEUE' = [SCANCODE_QUEUE EXCEPT !.queue = Tail(@)]
            /\ keys' = [keys EXCEPT !.read = @ + 1, !.last = Head(SCANCODE_QUEUE.queue)]
            /\ epc' = "pop1"
       ELSE /\ epc' = "register"
            /\ UNCHANGED <<SCANCODE_QUEUE, keys>>
    /\ UNCHANGED <<tasks, kinds, task_queue, waker_cache, cur, ints, WAKER, held,
                   panicked, otherVars>>

\* poll_next: WAKER.register(&cx.waker())
PollNextRegister ==
    /\ epc = "register" /\ ~panicked
    /\ WAKER' = <<cur>>
    /\ epc' = "pop2"
    /\ UNCHANGED <<tasks, kinds, task_queue, waker_cache, cur, ints,
                   SCANCODE_QUEUE, held, keys, panicked, otherVars>>

\* poll_next: the second queue.pop(); Some takes the waker back and is Ready,
\* None is Pending and the poll of the task returns to run_ready_tasks
PollNextRecheck ==
    \E r \in {poll_next_recheck(SCANCODE_QUEUE.queue)} :
    /\ epc = "pop2" /\ ~panicked
    /\ IF r.some
       THEN /\ SCANCODE_QUEUE' = [SCANCODE_QUEUE EXCEPT !.queue = Tail(@)]
            /\ keys' = [keys EXCEPT !.read = @ + 1, !.last = r.val]
            /\ WAKER' = <<>>
            /\ epc' = "pop1"
            /\ UNCHANGED task_queue
       ELSE /\ task_queue' = on_pending(task_queue, cur)
            /\ epc' = "run"
            /\ UNCHANGED <<SCANCODE_QUEUE, keys, WAKER>>
    /\ UNCHANGED <<tasks, kinds, waker_cache, cur, ints, held, panicked, otherVars>>

\* keyboard_interrupt_handler, taken between two instructions while
\* interrupts are enabled: add_scancode of the scancode read from the port
KeyboardInterrupt ==
    \E r \in {add_scancode(SCANCODE_QUEUE, WAKER, task_queue, keys.pushed + 1)} :
    /\ ints /\ ~panicked /\ epc # "spawn"
    /\ keys.pressed < MaxKeys
    /\ SCANCODE_QUEUE' = r.SCANCODE_QUEUE
    /\ WAKER' = r.WAKER
    /\ task_queue' = r.task_queue
    /\ panicked' = r.panic
    /\ keys' = [keys EXCEPT !.pressed = @ + 1,
                            !.pushed = IF r.pushed THEN @ + 1 ELSE @]
    /\ epc' = resume(epc)
    /\ UNCHANGED <<tasks, kinds, waker_cache, cur, ints, held, otherVars>>

\* timer_interrupt_handler: it ends the halt and does nothing else
TimerInterrupt ==
    /\ ints /\ ~panicked
    /\ epc = "halted"
    /\ epc' = resume(epc)
    /\ UNCHANGED <<tasks, kinds, task_queue, waker_cache, cur, ints, WAKER,
                   SCANCODE_QUEUE, held, keys, panicked, otherVars>>

\* an interrupt handler calls Wake::wake on the waker a future left with it
WakeInterrupt(id) ==
    \E r \in {wake_task(task_queue, id)} :
    /\ ints /\ ~panicked
    /\ id \in held
    /\ held' = held \ {id}
    /\ task_queue' = r.queue
    /\ panicked' = r.panic
    /\ epc' = resume(epc)
    /\ UNCHANGED <<tasks, kinds, waker_cache, cur, ints, WAKER, SCANCODE_QUEUE,
                   keys, otherVars>>

\* the instructions of the kernel, and the interrupts
NextKernel ==
    \/ \E future \in Futures : Spawn(future)
    \/ Run \/ Disable \/ Check \/ EnableAndHlt \/ Pop \/ PollOther
    \/ StreamNew \/ PollNextPop \/ PollNextRegister \/ PollNextRecheck

NextInterrupt ==
    \/ KeyboardInterrupt
    \/ TimerInterrupt
    \/ \E id \in held : WakeInterrupt(id)

NextExecutor == NextKernel \/ NextInterrupt

SpecExecutor == InitExecutor /\ [][NextExecutor]_vars

\* the CPU goes on executing the kernel's instructions whenever it is not
\* halted; no interrupt is ever bound to come
SpecExecutorFair == SpecExecutor /\ WF_vars(NextKernel)

\* the ids Task::new can have handed out
TaskIds == 0..(MaxTasks - 1)

\* the id waits in Executor.task_queue
InTaskQueue(id) == \E i \in 1..Len(task_queue) : task_queue[i] = id

\* the copies of the id in Executor.task_queue
Slots(id) == Cardinality({i \in 1..Len(task_queue) : task_queue[i] = id})

\* the CPU is inside Task::poll
Polling == epc \in {"poll", "new", "pop1", "register", "pop2"}

\* the CPU is inside the poll of print_keypresses
PollingKeys == epc \in {"new", "pop1", "register", "pop2"}

\* the task of print_keypresses, if it was spawned and has not completed
KeysTasks == {id \in tasks : kinds[id + 1] = "print_keypresses"}

\* C34: the executor is never halted while the task queue holds an id, and
\* every id in the task queue leaves it, which only a pop does, with no
\* further interrupt needed: the kernel's own steps are all that is fair
C34_NoLostWakeup ==
    /\ [](epc = "halted" => task_queue = <<>>)
    /\ \A id \in TaskIds : InTaskQueue(id) ~> ~InTaskQueue(id)

\* C35: whenever print_keypresses is parked, having returned Pending, and a
\* scancode is queued, the wake of its task has been issued: its id is in the
\* task queue, or the wake panicked on the full task queue; poll_next returns
\* Pending only on an empty scancode queue; and the scancodes pushed are
\* handed over in the order they came, none skipped
C35_NoKeyboardEventLost ==
    [][/\ \A id \in KeysTasks' :
              SCANCODE_QUEUE'.queue # <<>> /\ ~PollingKeys'
                  => InTaskQueue(id)' \/ panicked'
       /\ epc = "pop2" /\ epc' = "run" => SCANCODE_QUEUE'.queue = <<>>
       /\ keys'.last = keys'.read
       /\ SCANCODE_QUEUE'.queue
              = [i \in 1..(keys'.pushed - keys'.read) |-> keys'.read + i]]_vars

\* print_keypresses is parked with a scancode queued that came after it
\* returned Pending, and the executor is about to test the task queue
C35_Witness ==
    /\ epc = "sleep" /\ ~panicked
    /\ SCANCODE_QUEUE.queue # <<>>
    /\ keys.read >= 1
    /\ \E id \in KeysTasks : InTaskQueue(id)

\* C36: the task queue changes only by a pop of its head in run_ready_tasks
\* or by a push at its end, of the new id in spawn or of the id of a waker
\* that is called; a poll starts only on the id just popped; and a poll that
\* returns, Pending included, leaves the task queue as it is
C36_ExecutorFifoNonSpinning ==
    [][/\ task_queue' # task_queue =>
              \/ /\ epc = "run" /\ task_queue # <<>>
                 /\ task_queue' = Tail(task_queue) /\ cur' = Head(task_queue)
              \/ /\ epc = "spawn"
                 /\ task_queue' = Append(task_queue, Len(kinds))
                 /\ tasks' = tasks \cup {Len(kinds)}
              \/ /\ epc # "spawn"
                 /\ \E id \in held \cup {WAKER[i] : i \in 1..Len(WAKER)} :
                        task_queue' = Append(task_queue, id)
       /\ Polling' /\ ~Polling =>
              /\ epc = "run" /\ task_queue # <<>>
              /\ cur' = Head(task_queue) /\ task_queue' = Tail(task_queue)
       /\ Polling /\ ~Polling' => task_queue' = task_queue]_vars

\* a task returned Pending with its waker left with an interrupt source and
\* is not in the task queue, while the executor is about to go idle
C36_Witness ==
    /\ epc = "check" /\ ~panicked
    /\ cur \in tasks /\ cur \in held
    /\ kinds[cur + 1] = "other"
    /\ task_queue = <<>>

\* C37: a poll that returns Ready removes the task from tasks and its waker
\* from waker_cache; once run is entered no task is added, and a poll starts
\* only on a task in tasks; the id of a task that is gone is popped and
\* nothing else changes; outside a poll every key of waker_cache is in tasks
C37_CompletedTaskRemoved ==
    [][/\ tasks' # tasks /\ epc # "spawn" =>
              /\ Polling /\ ~Polling'
              /\ tasks' = tasks \ {cur}
              /\ waker_cache' = waker_cache \ {cur}
       /\ Polling' /\ ~Polling => cur' \in tasks
       /\ epc = "run" /\ task_queue # <<>> /\ Head(task_queue) \notin tasks
              /\ task_queue' = Tail(task_queue) =>
              /\ epc' = "run"
              /\ tasks' = tasks /\ waker_cache' = waker_cache
       /\ ~Polling' => waker_cache' \subseteq tasks']_vars

\* the id of a completed task, woken after completion, is at the head of the
\* task queue and run_ready_tasks is about to pop it
C37_Witness ==
    /\ epc = "run" /\ ~panicked
    /\ task_queue # <<>>
    /\ Head(task_queue) \notin tasks
    /\ tasks # {}

\* C38: each live task id is in at most one slot of the task queue, and the
\* push in wake_task never panics
C38_TaskQueueNeverOverflows ==
    /\ \A id \in tasks : Slots(id) <= 1
    /\ ~panicked

-----------------------------------------------------------------------------
(* memory.rs: BootInfoFrameAllocator over the memory map of the bootloader, *)
(* and the frames init_heap takes from it.                                  *)

\* the size of a frame in bytes, and the calls of allocate_frame followed
Size4KiB == 4096
MaxFrameCalls == 5

Region(start, end, type) ==
    [range |-> [start_frame_number |-> start, end_frame_number |-> end],
     region_type |-> type]

\* memory maps as the bootloader passes them: no two regions share a frame;
\* a region may be empty, and the usable ones need not be adjacent
MemoryMaps ==
    {<<Region(0, 1, "Reserved"), Region(1, 2, "Usable"), Region(2, 4, "Reserved"),
       Region(4, 6, "Usable")>>,
     <<Region(5, 7, "Usable"), Region(0, 2, "Usable"), Region(2, 5, "Kernel")>>,
     <<Region(0, 2, "Usable"), Region(2, 2, "Usable"), Region(2, 3, "Usable")>>,
     <<Region(0, 4, "Reserved")>>,
     <<Region(1, 2, "Usable")>>}

\* (r.range.start_addr()..r.range.end_addr()).step_by(4096), each address
\* turned into the frame that contains it
region_frames(r) ==
    With(r.range.start_frame_number * Size4KiB, LAMBDA first :
    With(r.range.end_frame_number * Size4KiB, LAMBDA limit :
    IF limit <= first THEN <<>>
    ELSE [i \in 1..(((limit - first) + (Size4KiB - 1)) \div Size4KiB) |->
              (first + (i - 1) * Size4KiB) \div Size4KiB]))

\* usable_frames: the frames of the regions marked Usable, region after region
RECURSIVE usable_frames(_)
usable_frames(map) ==
    IF map = <<>> THEN <<>>
    ELSE (IF Head(map).region_type = "Usable" THEN region_frames(Head(map)) ELSE <<>>)
         \o usable_frames(Tail(map))

\* allocate_frame that does not advance next
allocate_frame_no_advance(fa) ==
    With(usable_frames(fa.memory_map), LAMBDA usable :
    [alloc |-> fa,
     frame |-> IF fa.next < Len(usable) THEN Some(usable[fa.next + 1]) ELSE None])

\* allocate_frame: usable_frames().nth(self.next), and next advanced by one
allocate_frame(fa) ==
    With(usable_frames(fa.memory_map), LAMBDA usable :
    [alloc |-> [fa EXCEPT !.next = @ + 1],
     frame |-> IF fa.next < Len(usable) THEN Some(usable[fa.next + 1]) ELSE None])

\* BootInfoFrameAllocator::init on a memory map, every other component idle
InitFrames ==
    /\ \E map \in MemoryMaps : frame_allocator = [memory_map |-> map, next |-> 0]
    /\ frames = <<>>
    /\ AlignIdle /\ BumpIdle /\ LinkedListIdle /\ FixedIdle /\ GhostInit
    /\ region = <<>>
    /\ LockIdle /\ LayoutIdle /\ BootIdle /\ ProgIdle /\ TaskIdle

\* the frames of the log handed out for the given use
FramesFor(use) == {i \in 1..Len(frames) : frames[i].use = use /\ frames[i].frame.some}

\* a call of allocate_frame: by init_heap for the next page of the heap, by
\* map_to for a page table of a page whose frame init_heap has got, both until
\* the first None makes init_heap return the error, or by any other caller
AllocateFrame(use) ==
    \E r \in {allocate_frame(frame_allocator)} :
    /\ Len(frames) < MaxFrameCalls
    /\ use \in {"page", "table"} => \A i \in 1..Len(frames) : frames[i].frame.some
    /\ use = "table" => Len(frames) > 0 /\ frames[Len(frames)].use # "other"
    /\ frame_allocator' = r.alloc
    /\ frames' = Append(frames, [frame |-> r.frame, use |-> use])
    /\ UNCHANGED <<alignVars, bump, head, list_heads, fallback_allocator, region,
                   ghostVars, lockVars, li_layout, boot, prog, taskVars>>

NextFrames == \E use \in {"page", "table", "other"} : AllocateFrame(use)

SpecFrames == InitFrames /\ [][NextFrames]_vars

\* the frame lies in a region of the memory map that is marked Usable
InUsableRegion(f) ==
    \E i \in 1..Len(frame_allocator.memory_map) :
        /\ frame_allocator.memory_map[i].region_type = "Usable"
        /\ frame_allocator.memory_map[i].range.start_frame_number <= f
        /\ f < frame_allocator.memory_map[i].range.end_frame_number

\* the frames of all regions of the memory map
MapFrames ==
    UNION {frame_allocator.memory_map[i].range.start_frame_number
               ..(frame_allocator.memory_map[i].range.end_frame_number - 1) :
           i \in 1..Len(frame_allocator.memory_map)}

\* the usable frames that come before frame f of region i in memory-map order
UsableBefore(i, f) ==
    {<<j, g>> \in (1..Len(frame_allocator.memory_map)) \X MapFrames :
        /\ frame_allocator.memory_map[j].region_type = "Usable"
        /\ frame_allocator.memory_map[j].range.start_frame_number <= g
        /\ g < frame_allocator.memory_map[j].range.end_frame_number
        /\ j < i \/ (j = i /\ g < f)}

\* C39: the frames returned are pairwise distinct and lie in regions marked
\* Usable, the k-th call returns the frame with k - 1 usable frames before it
\* in memory-map order, a None is followed by None only, and so no two pages
\* of the heap get the same frame from init_heap
C39_FramesDistinctUsableInOrder ==
    /\ \A i, j \in 1..Len(frames) :
           frames[i].frame.some /\ frames[j].frame.some /\ i # j
               => frames[i].frame.val # frames[j].frame.val
    /\ \A k \in 1..Len(frames) :
           frames[k].frame.some =>
               /\ InUsableRegion(frames[k].frame.val)
               /\ \E i \in 1..Len(frame_allocator.memory_map) :
                      /\ frame_allocator.memory_map[i].region_type = "Usable"
                      /\ frame_allocator.memory_map[i].range.start_frame_number
                             <= frames[k].frame.val
                      /\ frames[k].frame.val
                             < frame_allocator.memory_map[i].range.end_frame_number
                      /\ Cardinality(UsableBefore(i, frames[k].frame.val)) = k - 1
    /\ \A i, j \in 1..Len(frames) :
           ~frames[i].frame.some /\ i < j => ~frames[j].frame.some
    /\ \A i, j \in FramesFor("page") :
           i # j => frames[i].frame.val # frames[j].frame.val

\* init_heap got frames for two pages from two usable regions with a region
\* that is not usable between them, and the calls after the last usable frame
\* returned None twice
C39_Witness ==
    /\ Len(frames) = MaxFrameCalls
    /\ Cardinality(FramesFor("page")) >= 2
    /\ \E i, j \in FramesFor("page") :
           /\ i < j
           /\ \E f \in (frames[i].frame.val + 1)..(frames[j].frame.val - 1) :
                  ~InUsableRegion(f)
    /\ ~frames[MaxFrameCalls - 1].frame.some
    /\ ~frames[MaxFrameCalls].frame.some

=============================================================================
